---- MODULE Spec2Model ----
(***************************************************************************)
(* A model of the code-assistant core: the two transport clients           *)
(* (LLMService._call_ollama, EnhancedLLMService._call_llm), the issue      *)
(* extractor (CodeAnalyzer._extract_issues), the structured-heading stage  *)
(* with its classifier (EnhancedAnalyzer._structure_analysis_result) and   *)
(* the per-file analysis passes (CodeAnalyzer._analyze_file).              *)
(*                                                                         *)
(* Strings of the program are kept concrete where the code only compares,  *)
(* concatenates or measures them (TLA+ strings, Len and \o).  Where the    *)
(* code searches inside a string (substring tests, regular expressions) a  *)
(* text is a sequence of lines and a line is a marker followed by words;   *)
(* the searches are then decided word by word over a fixed vocabulary.     *)
(***************************************************************************)
EXTENDS Integers, Sequences, FiniteSets, TLC

VARIABLES
    svc,            \* which transport client runs the call
    max_retries,    \* config.MAX_RETRIES as read at the top of the call
    initial_delay,  \* config.INITIAL_RETRY_DELAY as read at the top of the call
    backoff_factor, \* config.RETRY_BACKOFF_FACTOR (read by LLMService only)
    body_max,       \* the longest body, in lines, the backend answers with
    configured,     \* whether config.py defines the retry settings
    pc,             \* position of the call: idle, loop, returned, raised, none
    attempt,        \* LLMService: loop index; EnhancedLLMService: retries
    retry_delay,    \* LLMService: the mutable delay
    sleeps,         \* every time.sleep argument of the call, in order
    reqs,           \* the requests.post calls of the call: how many, the outcome
                    \* kinds seen, and the kind of the latest one
    last,           \* the latest 2xx response: its endpoint and body
    ret,            \* the value returned to the caller
    extractor,      \* which extractor runs: CodeAnalyzer or EnhancedAnalyzer
    atext,          \* the analysis text given to CodeAnalyzer._extract_issues
    ablocks,        \* the analysis text given to _structure_analysis_result,
                    \* as its sequence of issue heading blocks
    issues,         \* the issue list the extractor returns
    xpc,            \* extractor position: off, ready, done
    fpc,            \* _analyze_file position: ready, done
    content_lines,  \* len(content.splitlines()) of the analysed file
    file_analysis,  \* the dictionary _analyze_file returns
    dpc,            \* analyze_directory position: off, ready, loop, done
    files,          \* how many files get_code_files returned; a path is 1..files
    idx,            \* the file the loop of analyze_directory is at
    counters,       \* self.issue_count, self.files_analyzed, self.failed_files
    results,        \* the results dictionary of analyze_directory
    modified,       \* the latest is_file_modified call: arguments and answer
    report_calls,   \* the backend calls made for the three project reports
    log,            \* what the loop printed for each file, in enumeration order
    file_analyses,  \* ProjectContext.file_analyses: path -> analysis
    analyses,       \* AnalysisStore.analyses["analyses"], in list order
    clock,          \* int(time.time()) at the next store_analysis call
    calls,          \* the calls made on the two stores so far, in order
    fixpc,          \* CodeFixer position: off, called, returned, ready, loop
    fix_call,       \* its arguments and the text the backend answers with
    fix_ret         \* what it returned, and the fixer's counters

sendVars == <<svc, max_retries, initial_delay, backoff_factor, body_max, configured, pc, attempt,
              retry_delay, sleeps, reqs, last, ret>>
extractVars == <<extractor, atext, ablocks, issues, xpc>>
fileVars == <<fpc, content_lines, file_analysis>>
cfgVars == <<svc, max_retries, initial_delay, backoff_factor, body_max, configured>>
dirVars == <<dpc, files, idx, counters, results, modified, report_calls, log>>
memVars == <<file_analyses, analyses, clock, calls>>
fixVars == <<fixpc, fix_call, fix_ret>>
runVars == <<dirVars, memVars, fixVars>>
vars == <<sendVars, extractVars, fileVars, runVars>>

----------------------------------------------------------------------------
(* Bounds of the model *)

MaxRetries == 3
MaxBodyLines == 2

----------------------------------------------------------------------------
(* Generic helpers *)

RECURSIVE Pow(_, _)
Pow(b, e) == IF e = 0 THEN 1 ELSE b * Pow(b, e - 1)

RECURSIVE SeqsUpTo(_, _)
SeqsUpTo(S, n) ==
    IF n = 0 THEN {<<>>}
    ELSE LET shorter == SeqsUpTo(S, n - 1)
         IN  shorter \cup {Append(s, x) : s \in {t \in shorter : Len(t) = n - 1}, x \in S}

NoValue == [kind |-> "none"]

----------------------------------------------------------------------------
(* Backend response bodies.  A body is a sequence of lines (joined by "\n"). *)
(* Each line is one of                                                       *)
(*   flat    a JSON object without inner braces,                             *)
(*             {"response":"Hel","eval_count":7}                             *)
(*   nested  a JSON object that ends with an inner object,                   *)
(*             {"response":"Hel","m":{}}                                     *)
(*   v1      a completions-shaped object, {"choices":[{"text":"lo"}]}        *)
(*   scalar  a JSON value that is no object, 42                              *)
(*   plain   words separated by single blanks, no braces, not JSON           *)
(*   blank   the empty line                                                  *)
(* field names the text key the object carries ("response", "text" or        *)
(* "none"), val its value (no white space inside), tok the sum of its        *)
(* eval_count and prompt_eval_count.                                         *)

BLine(k, f, v, t, ws) == [kind |-> k, field |-> f, val |-> v, tok |-> t, words |-> ws]

BodyLines ==
    { BLine("flat", "response", "Hel", 7, <<>>),
      BLine("nested", "response", "Hel", 0, <<>>),
      BLine("nested", "text", "lo", 0, <<>>),
      BLine("v1", "none", "lo", 0, <<>>),
      BLine("scalar", "none", "", 0, <<>>),
      BLine("plain", "none", "", 0, <<"not", "json", "at", "all", "but", "useful">>),
      BLine("blank", "none", "", 0, <<>>) }

Bodies == SeqsUpTo(BodyLines, MaxBodyLines)
BodiesUpTo(n) == {b \in Bodies : Len(b) <= n}

RECURSIVE JoinWords(_)
JoinWords(ws) ==
    IF ws = <<>> THEN ""
    ELSE IF Len(ws) = 1 THEN ws[1]
    ELSE ws[1] \o " " \o JoinWords(Tail(ws))

(* The characters of one body line. *)
LineStr(l) ==
    CASE l.kind = "plain" -> JoinWords(l.words)
      [] l.kind = "blank" -> ""
      [] l.kind = "scalar" -> "42"
      [] l.kind = "v1" -> "{\"choices\":[{\"text\":\"" \o l.val \o "\"}]}"
      [] l.kind = "flat" ->
            IF l.field = "none" THEN "{\"eval_count\":" \o ToString(l.tok) \o "}"
            ELSE "{\"" \o l.field \o "\":\"" \o l.val \o "\",\"eval_count\":"
                 \o ToString(l.tok) \o "}"
      [] l.kind = "nested" ->
            IF l.field = "none" THEN "{\"m\":{}}"
            ELSE "{\"" \o l.field \o "\":\"" \o l.val \o "\",\"m\":{}}"

(* len(s.split()) of one body line: a JSON line of the model has no blanks. *)
LineWords(l) ==
    CASE l.kind = "plain" -> Len(l.words)
      [] l.kind = "blank" -> 0
      [] OTHER -> 1

IsBlank(l) == l.kind = "blank"
IsJsonLine(l) == l.kind \in {"flat", "nested", "v1", "scalar"}
IsDictLine(l) == l.kind \in {"flat", "nested", "v1"}

NonBlank(body) == SelectSeq(body, LAMBDA l : ~IsBlank(l))

(* json.loads(text) succeeds exactly when the text is one JSON value with   *)
(* white space around it.                                                   *)
JsonLoadsOk(body) == Len(NonBlank(body)) = 1 /\ IsJsonLine(NonBlank(body)[1])

(* dict.get(key, "") on a parsed object line *)
DictGet(l, key) == IF l.field = key THEN l.val ELSE ""

(* The candidates of the pattern (\{.*?\}) that json.loads accepts: a flat  *)
(* object is matched whole; a nested or v1 object is cut at its first "}"   *)
(* and the cut piece does not parse.                                        *)
RegexCandidates(body) == SelectSeq(body, LAMBDA l : l.kind = "flat")

(* response.json(): the whole body or a JSONDecodeError (ok = FALSE) *)
ResponseJson(body) ==
    IF JsonLoadsOk(body) THEN [ok |-> TRUE, value |-> NonBlank(body)[1]]
    ELSE [ok |-> FALSE]

(* str(e) of the JSONDecodeError of response.json().  json.loads skips the  *)
(* leading white space and decodes one value: where no value starts it      *)
(* raises "Expecting value" at that character; after the value it skips     *)
(* white space again and raises "Extra data" at the first character left.   *)
(* Every line of a body starts in column 1.                                 *)
RECURSIVE CharOffset(_, _)
CharOffset(body, i) ==
    IF i <= 1 THEN 0 ELSE CharOffset(body, i - 1) + Len(LineStr(body[i - 1])) + 1
JsonPosition(line, char) ==
    "line " \o ToString(line) \o " column 1 (char " \o ToString(char) \o ")"
NonBlankAt(body) == {i \in DOMAIN body : ~IsBlank(body[i])}
FirstOf(S) == CHOOSE i \in S : \A j \in S : i <= j
JsonErrText(body) ==
    IF NonBlankAt(body) = {}
    THEN IF body = <<>> THEN "Expecting value: " \o JsonPosition(1, 0)
         ELSE "Expecting value: " \o JsonPosition(Len(body), Len(body) - 1)
    ELSE LET i == FirstOf(NonBlankAt(body))
             rest == NonBlankAt(body) \ {i}
         IN  IF ~IsJsonLine(body[i]) \/ rest = {}
             THEN "Expecting value: " \o JsonPosition(i, CharOffset(body, i))
             ELSE "Extra data: " \o JsonPosition(FirstOf(rest), CharOffset(body, FirstOf(rest)))

(* LLMService._safe_parse_json: the whole text, else the first candidate    *)
(* that parses, else JSONDecodeError (ok = FALSE).                          *)
SafeParseJson(body) ==
    IF JsonLoadsOk(body) THEN [ok |-> TRUE, value |-> NonBlank(body)[1]]
    ELSE IF RegexCandidates(body) # <<>>
         THEN [ok |-> TRUE, value |-> RegexCandidates(body)[1]]
         ELSE [ok |-> FALSE]

(* text.strip().split('\n'): leading and trailing blank lines go; an empty  *)
(* text still splits into one empty line.                                   *)
RECURSIVE DropLeadingBlank(_)
DropLeadingBlank(body) ==
    IF body = <<>> THEN <<>>
    ELSE IF IsBlank(Head(body)) THEN DropLeadingBlank(Tail(body))
    ELSE body

RECURSIVE DropTrailingBlank(_)
DropTrailingBlank(body) ==
    IF body = <<>> THEN <<>>
    ELSE IF IsBlank(body[Len(body)]) THEN DropTrailingBlank(SubSeq(body, 1, Len(body) - 1))
    ELSE body

StripSplit(body) ==
    LET inner == DropTrailingBlank(DropLeadingBlank(body))
    IN  IF inner = <<>> THEN <<BLine("blank", "none", "", 0, <<>>)>> ELSE inner

(* The accumulation loop of _extract_response_from_text.  acc carries the   *)
(* collected text s, its word count w, whether it ends inside a word, and   *)
(* whether a line raised (a scalar line: "response" in 42 is a TypeError).  *)
AccStep(acc, l) ==
    IF acc.raised \/ IsBlank(l) THEN acc
    ELSE IF l.kind = "scalar" THEN [acc EXCEPT !.raised = TRUE]
    ELSE IF IsDictLine(l) THEN
        LET v == IF l.field = "response" THEN l.val
                 ELSE IF l.field = "text" THEN l.val ELSE ""
        IN  IF v = "" THEN acc
            ELSE [raised |-> FALSE, s |-> acc.s \o v,
                  w |-> IF acc.inword THEN acc.w ELSE acc.w + 1, inword |-> TRUE]
    ELSE [raised |-> FALSE, s |-> acc.s \o LineStr(l) \o " ",
          w |-> IF acc.inword THEN acc.w + Len(l.words) - 1 ELSE acc.w + Len(l.words),
          inword |-> FALSE]

RECURSIVE Accumulate(_, _)
Accumulate(acc, lines) ==
    IF lines = <<>> THEN acc ELSE Accumulate(AccStep(acc, Head(lines)), Tail(lines))

RECURSIVE JoinLines(_)
JoinLines(lines) ==
    IF lines = <<>> THEN [s |-> "", w |-> 0]
    ELSE IF Len(lines) = 1 THEN [s |-> LineStr(lines[1]), w |-> LineWords(lines[1])]
    ELSE LET rest == JoinLines(Tail(lines))
         IN  [s |-> LineStr(lines[1]) \o "\n" \o rest.s, w |-> LineWords(lines[1]) + rest.w]

(* LLMService._extract_response_from_text.  The result is the text s with   *)
(* its word count w = len(s.split()), or raised.                            *)
ExtractResponseFromText(body) ==
    LET lines == StripSplit(body)
        acc == Accumulate([raised |-> FALSE, s |-> "", w |-> 0, inword |-> FALSE], lines)
    IN  IF Len(lines) = 1
        THEN [raised |-> FALSE, s |-> LineStr(lines[1]), w |-> LineWords(lines[1])]
        ELSE IF acc.raised THEN [raised |-> TRUE, s |-> "", w |-> 0]
        ELSE IF acc.s # "" THEN [raised |-> FALSE, s |-> acc.s, w |-> acc.w]
        ELSE LET j == JoinLines(Tail(lines))
             IN  [raised |-> FALSE, s |-> j.s, w |-> j.w]

(* tokens_used = len(generated_text.split()) * 2 *)
TokenEstimateFactor == 2
EstimateTokensOnePerWord(w) == w
EstimateTokens(w) == w * TokenEstimateFactor

----------------------------------------------------------------------------
(* The transport clients *)

LLM == "LLMService"
ENH == "EnhancedLLMService"

(* What one requests.post can end in: an exception of the requests library *)
(* or a 2xx response with a body.                                          *)
TransportFailures == {"timeout", "connection", "http"}

(* str(e) of the exception behind a failure that does not depend on the    *)
(* body; the library's own wording is kept to one text per kind.           *)
ErrText(k) ==
    CASE k = "timeout" -> "Read timed out."
      [] k = "connection" -> "Connection refused"
      [] k = "http" -> "500 Server Error"
      [] k = "attr" -> "'int' object has no attribute 'get'"
      [] k = "type" -> "argument of type 'int' is not iterable"
      [] k = "both" -> "Unable to parse Ollama response with both APIs: "
                       \o "No valid JSON found in response: line 1 column 1 (char 0)"

(* The three degraded results of LLMService._call_ollama *)
TimeoutSentinel(n) ==
    "Request timed out after " \o ToString(n) \o " attempts. Please try again later."
RequestSentinel(n, k) ==
    "Error calling LLM API after " \o ToString(n) \o " attempts: " \o ErrText(k)
UnexpectedSentinel(n, k) ==
    "Unexpected error after " \o ToString(n) \o " attempts: " \o ErrText(k)
(* The degraded result of EnhancedLLMService._call_llm *)
EnhancedSentinel(msg) == "Error: " \o msg

Value(t, n) == [kind |-> "value", text |-> t, tokens |-> n]

NoRequests == [n |-> 0, seen |-> {}, latest |-> "none"]
Posted(k) == [n |-> reqs.n + 1, seen |-> reqs.seen \cup {k}, latest |-> k]

(* for attempt in range(max_retries): the loop body runs while this holds *)
LoopRuns(a, n) == a < n

(* if attempt < max_retries - 1: retry, else give up *)
RetriesLeftOneMore(a, n) == a < n
RetriesLeft(a, n) == a < n - 1

(* retry_delay *= config.RETRY_BACKOFF_FACTOR *)
NextDelayLinear(d, f) == d + f
NextDelay(d, f) == d * f

(* The shared tail of the three except clauses of _call_ollama *)
OllamaRetryOrGiveUp(sentinel) ==
    IF RetriesLeft(attempt, max_retries)
    THEN /\ sleeps' = Append(sleeps, retry_delay)
         /\ retry_delay' = NextDelay(retry_delay, backoff_factor)
         /\ attempt' = attempt + 1
         /\ pc' = "loop"
         /\ UNCHANGED ret
    ELSE /\ ret' = Value(sentinel, 0)
         /\ pc' = "returned"
         /\ UNCHANGED <<sleeps, retry_delay, attempt>>

OllamaFailure(k) ==
    CASE k = "timeout" -> OllamaRetryOrGiveUp(TimeoutSentinel(max_retries))
      [] k \in {"connection", "http"} -> OllamaRetryOrGiveUp(RequestSentinel(max_retries, k))
      [] OTHER -> OllamaRetryOrGiveUp(UnexpectedSentinel(max_retries, k))

(* What the try block of _call_ollama does with a 2xx body on the default  *)
(* /api/generate endpoint (config.OLLAMA_API_VERSION is empty):            *)
(*   return   generated text and tokens                                    *)
(*   attr, type, both   an exception that the last except clause takes    *)
(*   fallback the second request, to /api/v1/completions                   *)
OllamaHandleResponse(body) ==
    LET parsed == SafeParseJson(body)
        ex == ExtractResponseFromText(body)
    IN  IF parsed.ok
        THEN IF IsDictLine(parsed.value)
             THEN [r |-> "return", text |-> DictGet(parsed.value, "response"),
                   tokens |-> parsed.value.tok]
             ELSE [r |-> "attr", text |-> "", tokens |-> 0]
        ELSE IF ex.raised THEN [r |-> "type", text |-> "", tokens |-> 0]
        ELSE IF ex.s = "" THEN [r |-> "fallback", text |-> "", tokens |-> 0]
        ELSE [r |-> "return", text |-> ex.s, tokens |-> EstimateTokens(ex.w)]

(* The fallback request's body: response.json(), choices[0].text and       *)
(* usage.total_tokens; any exception becomes the "Unable to parse" fault.  *)
OllamaHandleFallback(body) ==
    LET parsed == ResponseJson(body)
    IN  IF parsed.ok /\ IsDictLine(parsed.value)
        THEN [r |-> "return",
              text |-> IF parsed.value.kind = "v1" THEN parsed.value.val ELSE "",
              tokens |-> 0]
        ELSE [r |-> "both", text |-> "", tokens |-> 0]

Ollama_Begin ==
    /\ svc = LLM /\ pc = "idle"
    /\ pc' = "loop"
    /\ attempt' = 0
    /\ retry_delay' = initial_delay
    /\ UNCHANGED <<cfgVars, sleeps, reqs,
                   last, ret>>
    /\ UNCHANGED <<extractVars, fileVars, runVars>>

(* range(max_retries) is exhausted: the function ends without a return *)
Ollama_LoopExit ==
    /\ svc = LLM /\ pc = "loop"
    /\ ~LoopRuns(attempt, max_retries)
    /\ pc' = "returned"
    /\ ret' = NoValue
    /\ UNCHANGED <<cfgVars, attempt,
                   retry_delay, sleeps, reqs, last>>
    /\ UNCHANGED <<extractVars, fileVars, runVars>>

Ollama_Timeout ==
    /\ svc = LLM /\ pc = "loop"
    /\ LoopRuns(attempt, max_retries)
    /\ reqs' = Posted("timeout")
    /\ OllamaFailure("timeout")
    /\ UNCHANGED <<cfgVars, last>>
    /\ UNCHANGED <<extractVars, fileVars, runVars>>

Ollama_RequestException ==
    /\ svc = LLM /\ pc = "loop"
    /\ LoopRuns(attempt, max_retries)
    /\ \E k \in {"connection", "http"} :
          /\ reqs' = Posted(k)
          /\ OllamaFailure(k)
    /\ UNCHANGED <<cfgVars, last>>
    /\ UNCHANGED <<extractVars, fileVars, runVars>>

Ollama_Response ==
    /\ svc = LLM /\ pc = "loop"
    /\ LoopRuns(attempt, max_retries)
    /\ \E body \in BodiesUpTo(body_max) :
          LET h == OllamaHandleResponse(body)
          IN  /\ reqs' = Posted("ok")
              /\ CASE h.r = "return" ->
                        /\ ret' = Value(h.text, h.tokens)
                        /\ pc' = "returned"
                        /\ UNCHANGED <<sleeps, retry_delay, attempt>>
                   [] h.r = "fallback" ->
                        /\ pc' = "fallback"
                        /\ UNCHANGED <<ret, sleeps, retry_delay, attempt>>
                   [] OTHER -> OllamaFailure(h.r)
              /\ last' = [ep |-> "generate", body |-> body]
    /\ UNCHANGED <<cfgVars>>
    /\ UNCHANGED <<extractVars, fileVars, runVars>>

(* The second request of the same loop iteration, and what follows it *)
Ollama_Fallback ==
    /\ svc = LLM /\ pc = "fallback"
    /\ \/ \E k \in TransportFailures :
             /\ reqs' = Posted(k)
             /\ OllamaFailure(k)
             /\ UNCHANGED last
       \/ \E body \in BodiesUpTo(body_max) :
             LET h == OllamaHandleFallback(body)
             IN  /\ reqs' = Posted("ok")
                 /\ last' = [ep |-> "v1", body |-> body]
                 /\ IF h.r = "return"
                    THEN /\ ret' = Value(h.text, h.tokens)
                         /\ pc' = "returned"
                         /\ UNCHANGED <<sleeps, retry_delay, attempt>>
                    ELSE OllamaFailure(h.r)
    /\ UNCHANGED <<cfgVars>>
    /\ UNCHANGED <<extractVars, fileVars, runVars>>

(* EnhancedLLMService._call_llm; attempt holds its variable retries.  It    *)
(* reads config.MAX_RETRIES and config.INITIAL_RETRY_DELAY without a       *)
(* default: where config.py does not define them the read raises           *)
(* AttributeError before any request is made.                              *)
Llm_Begin ==
    /\ svc = ENH /\ pc = "idle"
    /\ pc' = IF configured THEN "loop" ELSE "raised"
    /\ attempt' = 0
    /\ UNCHANGED <<cfgVars, retry_delay,
                   sleeps, reqs, last, ret>>
    /\ UNCHANGED <<extractVars, fileVars, runVars>>

(* sleep_time = retry_delay * (2 ** (retries - 1)) *)
EnhancedBackoffBase == 2
EnhancedSleepTime(d, r) == d * Pow(EnhancedBackoffBase, r - 1)

(* retries += 1; if retries > max_retries: give up *)
EnhancedGivesUp(r, n) == r > n

LlmRequestException(msg) ==
    /\ attempt' = attempt + 1
    /\ IF EnhancedGivesUp(attempt + 1, max_retries)
       THEN /\ ret' = Value(EnhancedSentinel(msg), 0)
            /\ pc' = "returned"
            /\ UNCHANGED sleeps
       ELSE /\ sleeps' = Append(sleeps, EnhancedSleepTime(initial_delay, attempt + 1))
            /\ pc' = "loop"
            /\ UNCHANGED ret

Llm_RequestException ==
    /\ svc = ENH /\ pc = "loop"
    /\ attempt <= max_retries
    /\ \E k \in TransportFailures :
          /\ reqs' = Posted(k)
          /\ LlmRequestException(ErrText(k))
    /\ UNCHANGED <<cfgVars, retry_delay, last>>
    /\ UNCHANGED <<extractVars, fileVars, runVars>>

(* A 2xx response: response.json() raises requests' JSONDecodeError (a     *)
(* RequestException since requests 2.27) on a body that is not one JSON    *)
(* value; result.get on a value that is no object raises AttributeError,   *)
(* which no clause of _call_llm catches.                                   *)
Llm_Response ==
    /\ svc = ENH /\ pc = "loop"
    /\ attempt <= max_retries
    /\ \E body \in BodiesUpTo(body_max) :
          LET parsed == ResponseJson(body)
          IN  /\ reqs' = Posted("ok")
              /\ last' = [ep |-> "generate", body |-> body]
              /\ IF ~parsed.ok THEN LlmRequestException(JsonErrText(body))
                 ELSE IF IsDictLine(parsed.value)
                 THEN /\ ret' = Value(DictGet(parsed.value, "response"), 0)
                      /\ pc' = "returned"
                      /\ UNCHANGED <<sleeps, attempt>>
                 ELSE /\ pc' = "raised"
                      /\ UNCHANGED <<ret, sleeps, attempt>>
    /\ UNCHANGED <<cfgVars, retry_delay>>
    /\ UNCHANGED <<extractVars, fileVars, runVars>>

----------------------------------------------------------------------------
(* Analysis texts.  A text is a sequence of lines (joined by "\n"); a line   *)
(* is a marker followed by words separated by single spaces.  The marker is  *)
(* the part of the line the extractor's regular expressions key on.          *)

MaxTextLines == 2

TLine(m, ws) == [mark |-> m, words |-> ws]

Neutral == <<"Unused", "variable", "tmp", "in", "the", "parser", "loop">>
Praise == <<"This", "function", "is", "clean", "and", "well", "documented.">>
PraiseBut == <<"This", "function", "is", "clean", "and", "well", "documented,",
               "but", "error", "handling", "is", "missing.">>
LongPraise == <<"The", "naming", "is", "excellent", "and", "the", "overall",
                "structure", "is", "very", "nice", "indeed.">>
Unclear == <<"The", "control", "flow", "is", "unclear", "here">>
Mentions == <<"There", "is", "an", "issue", "with", "the", "retry", "loop", "here">>
ErrorFirst == <<"Error", "handling", "is", "missing", "in", "the", "request",
                "loop", "of", "the", "client">>
Remark == <<"Nothing", "else", "stands", "out", "here.">>
(* What _call_ollama returns once its default three attempts are used up *)
TimeoutLine == TLine("", <<"Request", "timed", "out", "after", "3", "attempts.",
                           "Please", "try", "again", "later.">>)
RequestErrorLine == TLine("", <<"Error", "calling", "LLM", "API", "after", "3",
                                "attempts:", "Connection", "refused">>)
UnexpectedLine == TLine("", <<"Unexpected", "error", "after", "3", "attempts:", "'int'",
                              "object", "has", "no", "attribute", "'get'">>)
Pad == "                              "
(* The three backquotes that open a code fence; the string is written with  *)
(* three other characters of the same length.                               *)
Fence == "~~~"

TextLines ==
    { TLine("Issue 1: ", Neutral),
      TLine("- Issue 2: ", Neutral),
      TLine("Line 12: ", Mentions),
      TLine("1. ", Neutral),
      TLine("* ", <<"Typo">>),
      TLine("- ", Praise),
      TLine("- ", PraiseBut),
      TLine("- ", <<"No", "issues", "found">>),
      TLine("", Praise),
      TLine("", LongPraise),
      TLine("", Unclear),
      TLine("", Mentions),
      TLine("", Neutral),
      TLine("", ErrorFirst),
      TLine("", Remark),
      TimeoutLine,
      RequestErrorLine,
      UnexpectedLine,
      TLine("# ", <<"Summary">>),
      TLine(Fence, <<>>),
      TLine(Pad, <<>>),
      TLine("", <<>>) }

Texts == SeqsUpTo(TextLines, MaxTextLines)

TLineStr(l) == l.mark \o JoinWords(l.words)

(* line.strip(): only the padding line has outer whitespace *)
StripLine(l) == IF l.words = <<>> /\ l.mark = Pad THEN TLine("", <<>>) ELSE l

IsWhitespaceLine(l) == StripLine(l) = TLine("", <<>>)

RECURSIVE TextLen(_)
TextLen(t) ==
    IF t = <<>> THEN 0
    ELSE IF Len(t) = 1 THEN Len(TLineStr(t[1]))
    ELSE Len(TLineStr(t[1])) + 1 + TextLen(Tail(t))

RECURSIVE DropLeadingWhitespace(_)
DropLeadingWhitespace(t) ==
    IF t = <<>> THEN <<>>
    ELSE IF IsWhitespaceLine(t[1]) THEN DropLeadingWhitespace(Tail(t))
    ELSE t

RECURSIVE DropTrailingWhitespace(_)
DropTrailingWhitespace(t) ==
    IF t = <<>> THEN <<>>
    ELSE IF IsWhitespaceLine(t[Len(t)]) THEN DropTrailingWhitespace(SubSeq(t, 1, Len(t) - 1))
    ELSE t

(* len(analysis_text.strip()) *)
StrippedTextLen(t) == TextLen(DropTrailingWhitespace(DropLeadingWhitespace(t)))

(* Substring tests on lowercased text, decided per word of the vocabulary:  *)
(* the keywords a word (or a marker) contains once lowercased.              *)
WordKeywords(w) ==
    CASE w = "clean" -> {"clean"}
      [] w = "excellent" -> {"excellent"}
      [] w = "nice" -> {"nice"}
      [] w = "unclear" -> {"clear"}
      [] w = "but" -> {"but"}
      [] w = "attribute" -> {"but"}
      [] w = "issue" -> {"issue"}
      [] w = "issues" -> {"issue"}
      [] w = "improvement:" -> {"improve"}
      [] OTHER -> {}

MarkKeywords(m) ==
    CASE m = "Issue 1: " -> {"issue"}
      [] m = "- Issue 2: " -> {"issue"}
      [] m = "Issue 2: " -> {"issue"}
      [] m = "Potential improvement: " -> {"improve"}
      [] OTHER -> {}

LineKeywords(l) ==
    MarkKeywords(l.mark) \cup UNION {WordKeywords(l.words[i]) : i \in DOMAIN l.words}

TextKeywords(t) == UNION {LineKeywords(t[i]) : i \in DOMAIN t}

positive_indicators == {"good", "excellent", "well done", "clean", "clear", "appropriate", "nice"}
negative_indicators == {"but", "however", "improve", "issue", "problem", "fix", "consider"}

(* any(ind in lower for positive) and not any(ind in lower for negative) *)
PositiveOnly(l) ==
    /\ LineKeywords(l) \cap positive_indicators # {}
    /\ LineKeywords(l) \cap negative_indicators = {}

(* description.lower() in ["none", "no issues found"] *)
IsNoneText(l) ==
    /\ l.mark = ""
    /\ l.words \in {<<"none">>, <<"None">>, <<"No", "issues", "found">>, <<"no", "issues", "found">>}

(* analysis_text.startswith("Error") *)
StartsWithError(t) ==
    /\ t # <<>>
    /\ t[1].mark = ""
    /\ t[1].words # <<>>
    /\ t[1].words[1] = "Error"

----------------------------------------------------------------------------
(* CodeAnalyzer._extract_issues *)

Issue(n, d) == [line_number |-> n, description |-> d, fixed |-> FALSE]

Patterns == 1..5

(* The match of one pattern on one line: nothing, or the line number and    *)
(* the description it captures (the description kept as marker and words).  *)
PatternMatch(p, l) ==
    IF l.words = <<>> THEN <<>>
    ELSE CASE p = 1 /\ l.mark \in {"Issue 1: ", "- Issue 2: "} ->
                <<[line_number |-> "None", d |-> TLine("", l.words)]>>
           [] p = 2 /\ l.mark = "Line 12: " ->
                <<[line_number |-> "12", d |-> TLine("", l.words)]>>
           [] p = 3 /\ l.mark = "1. " ->
                <<[line_number |-> "None", d |-> TLine("", l.words)]>>
           [] p = 4 /\ l.mark = "* " ->
                <<[line_number |-> "None", d |-> TLine("", l.words)]>>
           [] p = 5 /\ l.mark = "- " ->
                <<[line_number |-> "None", d |-> TLine("", l.words)]>>
           [] p = 5 /\ l.mark = "- Issue 2: " ->
                <<[line_number |-> "None", d |-> TLine("Issue 2: ", l.words)]>>
           [] OTHER -> <<>>

MinDescriptionLen == 10
MinLooseLineLen == 20
MinForcedLineLen == 30
MinForcedTextLen == 50

Described(found, d) == \E i \in DOMAIN found : found[i].description = d

AddIssueUnchecked(found, n, d) == Append(found, Issue(n, d))

(* "Add issue if not already added" *)
AddIssue(found, n, d) == IF Described(found, d) THEN found ELSE Append(found, Issue(n, d))

(* The body of the loop over the matches of a pattern *)
KeepMatch(found, m) ==
    IF Len(TLineStr(m.d)) < MinDescriptionLen \/ IsNoneText(m.d) THEN found
    ELSE IF PositiveOnly(m.d) THEN found
    ELSE AddIssue(found, m.line_number, TLineStr(m.d))

RECURSIVE PatternPass(_, _, _)
PatternPass(found, p, t) ==
    IF t = <<>> THEN found
    ELSE LET m == PatternMatch(p, t[1])
         IN  PatternPass(IF m = <<>> THEN found ELSE KeepMatch(found, m[1]), p, Tail(t))

(* for pattern in patterns: every pattern is tried, whatever was found *)
RECURSIVE AllPatterns(_, _, _)
AllPatterns(found, p, t) ==
    IF p \notin Patterns THEN found
    ELSE AllPatterns(PatternPass(found, p, t), p + 1, t)

(* [line.strip() for line in analysis_text.split("\n") if line.strip()] *)
StrippedLines(t) == SelectSeq([i \in DOMAIN t |-> StripLine(t[i])], LAMBDA l : l # TLine("", <<>>))

(* line.startswith("#") or the code-fence test *)
IsHeadingOrFence(l) == l.mark \in {"# ", Fence}

(* The body of the loop of the loose-line stage *)
KeepLooseLine(found, l) ==
    IF Len(TLineStr(l)) > MinLooseLineLen /\ ~IsHeadingOrFence(l)
    THEN IF PositiveOnly(l) THEN found ELSE AddIssue(found, "None", TLineStr(l))
    ELSE found

RECURSIVE LooseLines(_, _)
LooseLines(found, ls) ==
    IF ls = <<>> THEN found
    ELSE LooseLines(KeepLooseLine(found, ls[1]), Tail(ls))

GenericIssue ==
    "Consider reviewing the code for potential improvements in readability and maintainability."

ForcedPrefix == "Potential improvement: "

IsLongLine(l) == Len(TLineStr(l)) > MinForcedLineLen /\ ~IsHeadingOrFence(l)

ForcedIssue(l) == Issue("None", ForcedPrefix \o TLineStr(l))

(* the loop of the forced-minimum stage without its break *)
ForcedMinimumNoBreak(t) ==
    LET long == SelectSeq(StrippedLines(t), IsLongLine)
    IN  IF long # <<>>
        THEN [i \in DOMAIN long |-> ForcedIssue(long[i])]
        ELSE <<Issue("None", GenericIssue)>>

(* The forced-minimum stage: the first long line, else the generic issue *)
ForcedMinimum(t) ==
    LET long == SelectSeq(StrippedLines(t), IsLongLine)
    IN  IF long # <<>>
        THEN <<ForcedIssue(long[1])>>
        ELSE <<Issue("None", GenericIssue)>>

ForcedGuard(t) == StrippedTextLen(t) > MinForcedTextLen

IsEmptyText(t) == TextLen(t) = 0

(* The pattern stage followed by the loose-line stage *)
PatternAndLooseStages(t) ==
    LET byPattern == AllPatterns(<<>>, 1, t)
    IN  IF byPattern = <<>> /\ "issue" \in TextKeywords(t)
        THEN LooseLines(<<>>, StrippedLines(t))
        ELSE byPattern

ExtractIssues(t) ==
    IF IsEmptyText(t) THEN <<>>
    ELSE IF StartsWithError(t) THEN <<>>
    ELSE LET found == PatternAndLooseStages(t)
         IN  IF found = <<>> /\ ForcedGuard(t) THEN ForcedMinimum(t) ELSE found

(* CodeAnalyzer._count_issues is len() of the list *)
Extract_CodeAnalyzer ==
    /\ xpc = "ready"
    /\ extractor = "CodeAnalyzer"
    /\ issues' = ExtractIssues(atext)
    /\ xpc' = "done"
    /\ UNCHANGED <<extractor, atext, ablocks>>
    /\ UNCHANGED <<sendVars, fileVars, runVars>>

----------------------------------------------------------------------------
(* EnhancedAnalyzer._structure_analysis_result on a text-based analysis.    *)
(* The text is a sequence of heading blocks                                 *)
(*   ## Issue #<i><lines>: <title>                                          *)
(*   <description>                                                          *)
(* numbered from 1, where <lines> is nothing, " (Line a)" or                *)
(* " (Lines a-b)".  A title is a sequence of alphabetic words.              *)

MaxTitleWords == 2
MaxBlocks == 2

TitleWords == {"security", "crash", "Major", "error", "bug", "style", "slow",
               "readability", "incorrect", "Unused", "improvement", "injection"}

CriticalExample == <<"Critical", "SQL", "injection", "vulnerability">>
MinorExample == <<"Minor", "formatting", "inconsistency">>

Titles == (SeqsUpTo(TitleWords, MaxTitleWords) \ {<<>>}) \cup {CriticalExample, MinorExample}

(* A regex group that did not take part in the match (Python's None) *)
NoLine == -1
NoLines == [a |-> NoLine, b |-> NoLine]
Lines(a, b) == [a |-> a, b |-> b]

Block(ls, t, d) == [lines |-> ls, title |-> t, desc |-> d]

SampleDescription == "Inputs are concatenated into the query."

SampleBlocks ==
    { Block(ls, t, d) : ls \in {NoLines, Lines(5, NoLine), Lines(3, 9), Lines(9, 3)},
                        t \in {CriticalExample, <<"Unused", "style">>},
                        d \in {"", SampleDescription} }

StructuredInputs ==
    {<<Block(NoLines, t, "")>> : t \in Titles} \cup SeqsUpTo(SampleBlocks, MaxBlocks)

(* title.lower(), word by word *)
LowerWord(w) ==
    CASE w = "Critical" -> "critical"
      [] w = "SQL" -> "sql"
      [] w = "Minor" -> "minor"
      [] w = "Major" -> "major"
      [] w = "Unused" -> "unused"
      [] OTHER -> w

(* re.search(r"\b(k1|k2|...)\b", title.lower()) *)
SearchWords(keywords, t) == \E i \in DOMAIN t : LowerWord(t[i]) \in keywords

CriticalWords == {"critical", "severe", "serious", "crash", "security", "exploit", "vulnerability"}
MajorWords == {"major", "important", "significant", "error", "bug"}
MinorWords == {"minor", "style", "formatting", "suggestion", "improvement"}

SeverityMajorFirst(t) ==
    IF SearchWords(MajorWords, t) THEN "major"
    ELSE IF SearchWords(CriticalWords, t) THEN "critical"
    ELSE "minor"

Severity(t) ==
    IF SearchWords(CriticalWords, t) THEN "critical"
    ELSE IF SearchWords(MajorWords, t) THEN "major"
    ELSE IF SearchWords(MinorWords, t) THEN "minor"
    ELSE "minor"

SecurityWords == {"security", "vulnerability", "exploit", "injection", "xss"}
PerformanceWords == {"performance", "slow", "speed", "memory", "cpu", "efficient"}
MaintainabilityWords == {"maintainability", "readability", "clarity", "documentation"}
BugWords == {"bug", "error", "exception", "crash", "incorrect"}

IssueType(t) ==
    IF SearchWords(SecurityWords, t) THEN "security"
    ELSE IF SearchWords(PerformanceWords, t) THEN "performance"
    ELSE IF SearchWords(MaintainabilityWords, t) THEN "maintainability"
    ELSE IF SearchWords(BugWords, t) THEN "bug"
    ELSE "general"

StructuredIssue(i, b) ==
    [id |-> i,
     title |-> JoinWords(b.title),
     description |-> b.desc,
     line_start |-> b.lines.a,
     line_end |-> IF b.lines.b # NoLine THEN b.lines.b ELSE b.lines.a,
     severity |-> Severity(b.title),
     type |-> IssueType(b.title),
     fixed |-> FALSE]

StructureAnalysisResult(bs) == [i \in DOMAIN bs |-> StructuredIssue(i, bs[i])]

Extract_Structure ==
    /\ xpc = "ready"
    /\ extractor = "EnhancedAnalyzer"
    /\ issues' = StructureAnalysisResult(ablocks)
    /\ xpc' = "done"
    /\ UNCHANGED <<extractor, atext, ablocks>>
    /\ UNCHANGED <<sendVars, fileVars, runVars>>

----------------------------------------------------------------------------
(* CodeAnalyzer._analyze_file.  Each pass is one llm_service.analyze_code   *)
(* call; its outcome is a (text, tokens) pair or an exception.              *)

SecurityMinLines == 20
PerformanceMinLines == 50
SampleTokens == 7

PassLines == {TLine("Issue 1: ", Neutral), TimeoutLine, RequestErrorLine}
(* The answers of a pass: nothing, one line or two lines *)
PassTexts ==
    {<<>>} \cup {<<a>> : a \in PassLines} \cup {<<a, b>> : a, b \in PassLines}

IsSentinelText(t) == t \in {<<TimeoutLine>>, <<RequestErrorLine>>, <<UnexpectedLine>>}

(* analyze_code hands on what _call_ollama returns: any text, with the      *)
(* count the backend reported, 0 when it reported none (and with the        *)
(* sentinels of a failed call), or the exception it raised.                 *)
PassOutcomes ==
    {[kind |-> "text", text |-> t, tokens |-> n] : t \in PassTexts, n \in {0, SampleTokens}}
    \cup {[kind |-> "raise"]}

(* analysis_result = f"Error during analysis: {e}" *)
ErrorDuringAnalysis == <<TLine("", <<"Error", "during", "analysis:", "boom">>)>>

Some(t) == [kind |-> "text", text |-> t]

(* if analysis_result and not analysis_result.startswith("Error") *)
StandardSucceeded(t) == ~IsEmptyText(t) /\ ~StartsWithError(t)

RunsSecurity(t, n) == StandardSucceeded(t) /\ n > SecurityMinLines
RunsPerformance(t, n) == StandardSucceeded(t) /\ n > PerformanceMinLines

(* self._extract_issues(x) if x else [] *)
ExtractIfAny(a) ==
    IF a = NoValue THEN <<>>
    ELSE IF IsEmptyText(a.text) THEN <<>>
    ELSE ExtractIssues(a.text)

CombinedStandardLast(a, b, c) == b \o c \o a

(* all_issues = issues + security_issues + performance_issues *)
Combined(a, b, c) == a \o b \o c

AnalyzeFile(n, std, sec, perf) ==
    LET analysis_result == IF std.kind = "raise" THEN ErrorDuringAnalysis ELSE std.text
        runSec == RunsSecurity(analysis_result, n)
        runPerf == RunsPerformance(analysis_result, n)
        security_analysis == IF runSec /\ sec.kind = "text" THEN Some(sec.text) ELSE NoValue
        performance_analysis == IF runPerf /\ perf.kind = "text" THEN Some(perf.text) ELSE NoValue
        all_issues == Combined(ExtractIssues(analysis_result),
                               ExtractIfAny(security_analysis),
                               ExtractIfAny(performance_analysis))
    IN  [issues |-> all_issues,
         issue_count |-> Len(all_issues),
         standard_analysis |-> analysis_result,
         security_analysis |-> security_analysis,
         performance_analysis |-> performance_analysis,
         tokens_used |-> (IF std.kind = "raise" THEN 0 ELSE std.tokens)
                         + (IF security_analysis # NoValue THEN sec.tokens ELSE 0)
                         + (IF performance_analysis # NoValue THEN perf.tokens ELSE 0),
         passes |-> <<"standard">> \o (IF runSec THEN <<"security">> ELSE <<>>)
                                   \o (IF runPerf THEN <<"performance">> ELSE <<>>)]

(* A pass that is not run makes no analyze_code call and has no outcome *)
ResultOf(std) == IF std.kind = "raise" THEN ErrorDuringAnalysis ELSE std.text
SecurityRuns(n, std) == RunsSecurity(ResultOf(std), n)
PerformanceRuns(n, std) == RunsPerformance(ResultOf(std), n)
CalledOutcomes(runs) == IF runs THEN PassOutcomes ELSE {NoValue}

File_Analyze ==
    /\ fpc = "ready"
    /\ \E std \in PassOutcomes :
          \E sec \in CalledOutcomes(SecurityRuns(content_lines, std)),
             perf \in CalledOutcomes(PerformanceRuns(content_lines, std)) :
              file_analysis' = AnalyzeFile(content_lines, std, sec, perf)
    /\ fpc' = "done"
    /\ UNCHANGED content_lines
    /\ UNCHANGED <<sendVars, extractVars, runVars>>

----------------------------------------------------------------------------
(* The specification of one send call on either client *)

IdleExtract ==
    extractor = "none" /\ atext = <<>> /\ ablocks = <<>> /\ issues = <<>> /\ xpc = "off"
IdleFile == fpc = "off" /\ content_lines = 0 /\ file_analysis = NoValue
IdleDir ==
    /\ dpc = "off" /\ files = 0 /\ idx = 0 /\ counters = NoValue /\ results = NoValue
    /\ modified = NoValue /\ report_calls = 0 /\ log = <<>>
IdleMem ==
    file_analyses = <<>> /\ analyses = <<>> /\ clock = 0 /\ calls = <<>>
IdleFix == fixpc = "off" /\ fix_call = NoValue /\ fix_ret = NoValue
IdleRun == IdleDir /\ IdleMem /\ IdleFix

InitCall ==
    /\ pc = "idle"
    /\ attempt = 0
    /\ retry_delay = 0
    /\ sleeps = <<>>
    /\ reqs = NoRequests
    /\ last = NoValue
    /\ ret = NoValue
    /\ IdleExtract /\ IdleFile /\ IdleRun

(* Every configuration of the retry settings, one-line bodies *)
InitSend ==
    /\ svc \in {LLM, ENH}
    /\ max_retries \in 0..MaxRetries
    /\ initial_delay \in {1, 2}
    /\ backoff_factor \in {2, 3}
    /\ body_max = 1
    /\ configured = TRUE
    /\ InitCall

(* The shipped config.py defines none of the three retry settings, so       *)
(* _call_ollama runs on its defaults and _call_llm cannot start; _call_llm  *)
(* also runs with the same three values set in config.py.  Bodies of        *)
(* several lines.                                                           *)
DefaultMaxRetries == 3
DefaultInitialDelay == 2
DefaultBackoffFactor == 2

InitParse ==
    /\ svc \in {LLM, ENH}
    /\ max_retries = DefaultMaxRetries
    /\ initial_delay = DefaultInitialDelay
    /\ backoff_factor = DefaultBackoffFactor
    /\ body_max = MaxBodyLines
    /\ configured \in IF svc = ENH THEN BOOLEAN ELSE {FALSE}
    /\ InitCall

NextSend ==
    \/ Ollama_Begin
    \/ Ollama_LoopExit
    \/ Ollama_Timeout
    \/ Ollama_RequestException
    \/ Ollama_Response
    \/ Ollama_Fallback
    \/ Llm_Begin
    \/ Llm_RequestException
    \/ Llm_Response

SpecSend == InitSend /\ [][NextSend]_vars

NextParse ==
    \/ Ollama_Begin
    \/ Ollama_Timeout
    \/ Ollama_RequestException
    \/ Ollama_Response
    \/ Ollama_Fallback
    \/ Llm_Begin
    \/ Llm_RequestException
    \/ Llm_Response

SpecParse == InitParse /\ [][NextParse]_vars

--------------------------------------------------------------------------------------------------------------------------
(* The specification of one issue extraction by either analyzer *)

IdleSend ==
    /\ svc = "none" /\ max_retries = 0 /\ initial_delay = 0 /\ backoff_factor = 0
    /\ body_max = 0 /\ configured = FALSE /\ pc = "off" /\ attempt = 0 /\ retry_delay = 0 /\ sleeps = <<>>
    /\ reqs = NoRequests /\ last = NoValue /\ ret = NoValue

InitExtract ==
    /\ \/ extractor = "CodeAnalyzer" /\ atext \in Texts /\ ablocks = <<>>
       \/ extractor = "EnhancedAnalyzer" /\ atext = <<>> /\ ablocks \in StructuredInputs
    /\ issues = <<>>
    /\ xpc = "ready"
    /\ IdleSend /\ IdleFile /\ IdleRun

NextExtract ==
    \/ Extract_CodeAnalyzer
    \/ Extract_Structure

SpecExtract == InitExtract /\ [][NextExtract]_vars

----------------------------------------------------------------------------
(* The specification of the analysis of one file *)

FileSizes == {SecurityMinLines, SecurityMinLines + 1, PerformanceMinLines, PerformanceMinLines + 1}

InitFile ==
    /\ fpc = "ready"
    /\ content_lines \in FileSizes
    /\ file_analysis = NoValue
    /\ IdleSend /\ IdleExtract /\ IdleRun

NextFile ==
    \/ File_Analyze

SpecFile == InitFile /\ [][NextFile]_vars

----------------------------------------------------------------------------
(* ProjectContext: file_analyses is a dictionary from file path to the      *)
(* latest analysis of that file.                                            *)

(* return self.file_analyses.get(file_path) *)
GetFileAnalysis(fa, p) == IF p \in DOMAIN fa THEN fa[p] ELSE NoValue

(* an update that appends the new issues to the ones already held *)
UpdateMerging(fa, p, a) ==
    [q \in DOMAIN fa \cup {p} |->
        IF q # p THEN fa[q]
        ELSE IF p \in DOMAIN fa THEN [a EXCEPT !.issues = fa[p].issues \o a.issues]
        ELSE a]

(* self.file_analyses[file_path] = analysis *)
UpdateFileAnalysis(fa, p, a) ==
    [q \in DOMAIN fa \cup {p} |-> IF q = p THEN a ELSE fa[q]]

(* [a for a in self.analyses["analyses"] if a["project"] != project_name] *)
KeepOtherProjects(list, project) == SelectSeq(list, LAMBDA a : a.project # project)

(* AnalysisStore.store_analysis.  now stands for int(time.time()); the      *)
(* entry's id is the project name joined with it, so two writes within one  *)
(* second carry the same id.                                                *)
StoreAnalysis(list, project, res, overwrite, now) ==
    LET analysis_entry ==
            [id |-> <<project, now>>,
             project |-> project,
             issue_count |-> IF "total_issues" \in DOMAIN res THEN res.total_issues ELSE 0,
             file_count |-> IF "files_analyzed" \in DOMAIN res THEN res.files_analyzed ELSE 0,
             results |-> res]
        kept == IF overwrite THEN KeepOtherProjects(list, project) ELSE list
    IN  Append(kept, analysis_entry)

(* The record of a call in calls *)
Put(p, a) == [op |-> "put", path |-> p, analysis |-> a]
Get(p, a) == [op |-> "get", path |-> p, analysis |-> a]
Write(project, now, overwrite) ==
    [op |-> "write", id |-> <<project, now>>, project |-> project, overwrite |-> overwrite]

MaxWrites == 3

----------------------------------------------------------------------------
(* FileService.is_file_modified and get_file_info.  A stat of the file      *)
(* answers with its modification time or raises OSError.                    *)

MaxFiles == 3
Mtimes == {1, 2, 3}
Stat(t) == [ok |-> TRUE, st_mtime |-> t]
StatRaises == [ok |-> FALSE]
Stats == {Stat(t) : t \in Mtimes} \cup {StatRaises}

(* get_file_info: last_modified is recorded only when the stat succeeds *)
FileInfo(p, st) ==
    IF st.ok THEN [path |-> p, last_modified |-> st.st_mtime]
    ELSE [path |-> p, error |-> "stat failed"]

(* existing_analysis.get("file_info", {}).get("last_modified", 0) *)
LastAnalyzed(existing) ==
    IF "file_info" \in DOMAIN existing /\ "last_modified" \in DOMAIN existing.file_info
    THEN existing.file_info.last_modified
    ELSE 0

NewerOrSame(last_modified, last_analyzed) == last_modified >= last_analyzed

(* return last_modified > last_analyzed *)
Newer(last_modified, last_analyzed) == last_modified > last_analyzed

IsFileModified(st, existing) ==
    IF existing = NoValue THEN TRUE
    ELSE IF ~st.ok THEN TRUE
    ELSE Newer(st.st_mtime, LastAnalyzed(existing))

(* One is_file_modified call on its own: modified holds the arguments, then *)
(* the answer as well.                                                      *)
Modified_Check ==
    /\ dpc = "check"
    /\ modified' = [stat |-> modified.stat, existing |-> modified.existing,
                    answer |-> IsFileModified(modified.stat, modified.existing)]
    /\ dpc' = "done"
    /\ UNCHANGED <<files, idx, counters, results, report_calls, log, memVars>>
    /\ UNCHANGED <<sendVars, extractVars, fileVars, fixVars>>

----------------------------------------------------------------------------
(* CodeAnalyzer.analyze_directory.  One step of the model is one turn of    *)
(* the per-file loop; the last step builds the project reports and stores   *)
(* the results.                                                             *)

(* a count of the issues already marked as fixed *)
CountFixedIssues(fa) ==
    IF fa = NoValue THEN 0
    ELSE IF "issues" \in DOMAIN fa THEN Len(SelectSeq(fa.issues, LAMBDA i : i.fixed))
    ELSE 0

(* CodeAnalyzer._count_issues *)
CountIssues(fa) ==
    IF fa = NoValue THEN 0
    ELSE IF "issues" \in DOMAIN fa THEN Len(fa.issues)
    ELSE IF "issue_count" \in DOMAIN fa THEN fa.issue_count
    ELSE 0

(* The outcomes of the standard pass used in directory runs: an answer with *)
(* one issue, an exception.  The files are short, so _analyze_file makes    *)
(* the standard pass only.                                                  *)
DirOutcomes ==
    {o \in PassOutcomes : o.kind = "raise" \/
        (o.text = <<TLine("Issue 1: ", Neutral)>> /\ o.tokens = SampleTokens)}

(* len(content.splitlines()) of the file at path p: the first file is just  *)
(* long enough for the security pass, the others are not                    *)
FileLength(p) == IF p = 1 THEN SecurityMinLines + 1 ELSE SecurityMinLines

(* The dictionary _analyze_file returns for path p, every pass it makes     *)
(* having the outcome std                                                   *)
FileAnalysisOf(p, st, std) ==
    [q \in {"file_path", "file_info"} |-> IF q = "file_path" THEN p ELSE FileInfo(p, st)]
        @@ AnalyzeFile(FileLength(p), std, std, std)

(* The analyze_code calls _analyze_file made for that dictionary, as        *)
(* records of calls                                                         *)
BackendCall(p, pass) == [op |-> "backend", path |-> p, pass |-> pass]
BackendCallsStandardOnly(p, fa) == <<BackendCall(p, "standard")>>

BackendCalls(p, fa) == [i \in DOMAIN fa.passes |-> BackendCall(p, fa.passes[i])]

(* The ways a file leaves the loop through failed_files += 1; continue      *)
(* before its cached analysis is looked up; the first is an exception of    *)
(* os.path.getsize, caught by the except clause of the loop                 *)
FileFailures ==
    {"size raises", "too large", "binary", "read raises", "no content", "no language"}

(* The passes of _analyze_file in the order it makes them *)
PassOrder == <<"standard", "security", "performance">>

(* The number of passes _analyze_file can have made when it raises: none    *)
(* when the exception comes before the standard pass, one when the standard *)
(* answer is not a string (.startswith), two or three when the answer of    *)
(* the security or the performance pass, made for a file long enough, is    *)
(* not one (_extract_issues).                                               *)
RaisePoints(p) ==
    {n \in 0..Len(PassOrder) :
        /\ n >= 2 => FileLength(p) > SecurityMinLines
        /\ n >= 3 => FileLength(p) > PerformanceMinLines}

(* The analyze_code calls made before _analyze_file raised after n passes *)
CallsBeforeRaise(p, n) == [i \in 1..n |-> BackendCall(p, PassOrder[i])]

NoCounts == [issue_count |-> 0, files_analyzed |-> 0, failed_files |-> 0]

(* The counters an earlier run on the same CodeAnalyzer can have left *)
LeftCounts == [issue_count |-> 4, files_analyzed |-> 2, failed_files |-> 1]

KeepCounters(c) == c

(* self.issue_count = 0; self.files_analyzed = 0; self.failed_files = 0 *)
ResetCounters(c) == NoCounts

FailedUncounted(c) == c

(* self.failed_files += 1 *)
Failed(c) == [c EXCEPT !.failed_files = @ + 1]

NewResults ==
    [files_analyzed |-> 0,
     total_issues |-> 0,
     file_analyses |-> <<>>,
     project_level_analysis |-> NoValue,
     growth_recommendations |-> <<>>,
     security_overview |-> NoValue]

NoFilesAnalyzed == "No files were successfully analyzed."

ReportsAlways(n) == n >= 0

(* if self.files_analyzed > 0 *)
GeneratesReports(n) == n > 0

(* What each of the three report generators does: its backend call         *)
(* answers; the call raises inside the generator's own try, which returns   *)
(* the error text or no recommendations; or the generator raises before its *)
(* call (get_project_structure, the loops over the file analyses), which    *)
(* ends the try of analyze_directory so that the later generators are       *)
(* skipped.  A sample: all answer, every call fails, only the call for the  *)
(* growth recommendations fails, and a raise in the first, the second and   *)
(* the third generator.                                                     *)
ReportOutcomes ==
    {<<"answers", "answers", "answers">>,
     <<"fails", "fails", "fails">>,
     <<"answers", "fails", "answers">>,
     <<"raises", "skipped", "skipped">>,
     <<"answers", "raises", "skipped">>,
     <<"answers", "answers", "raises">>}

(* The backend calls made for the reports: one by each generator that      *)
(* reached its call                                                         *)
ReportCalls(n, up) ==
    IF GeneratesReports(n)
    THEN Cardinality({k \in 1..3 : up[k] \in {"answers", "fails"}})
    ELSE 0

(* _generate_project_analysis, _generate_growth_recommendations and         *)
(* _generate_security_overview: one backend call each; a call that raises   *)
(* leaves the report's error text, or no recommendations; a report whose    *)
(* generator raised or was skipped keeps the value the results started with *)
ProjectReports(res, n, up) ==
    IF GeneratesReports(n)
    THEN [res EXCEPT
            !.project_level_analysis =
                IF up[1] = "answers" THEN Some("project analysis")
                ELSE IF up[1] = "fails" THEN Some("Error generating project analysis: boom")
                ELSE @,
            !.growth_recommendations =
                IF up[2] = "answers"
                THEN <<[title |-> "Add tests", description |-> "", implemented |-> FALSE]>>
                ELSE IF up[2] = "fails" THEN <<>>
                ELSE @,
            !.security_overview =
                IF up[3] = "answers" THEN Some("security overview")
                ELSE IF up[3] = "fails" THEN Some("Error generating security overview: boom")
                ELSE @]
    ELSE [res EXCEPT
            !.project_level_analysis = Some(NoFilesAnalyzed),
            !.growth_recommendations = <<>>,
            !.security_overview = Some(NoFilesAnalyzed)]

ProjectName == "proj"

Dir_ScanFails ==
    /\ dpc = "ready"
    /\ counters' = ResetCounters(counters)
    /\ results' = [error |-> "Error scanning directory: boom"]
    /\ dpc' = "done"
    /\ UNCHANGED <<files, idx, modified, report_calls, log, memVars>>
    /\ UNCHANGED <<sendVars, extractVars, fileVars, fixVars>>

Dir_NoFiles ==
    /\ dpc = "ready"
    /\ files = 0
    /\ counters' = ResetCounters(counters)
    /\ results' = [error |-> "No files to analyze"]
    /\ dpc' = "done"
    /\ UNCHANGED <<files, idx, modified, report_calls, log, memVars>>
    /\ UNCHANGED <<sendVars, extractVars, fileVars, fixVars>>

Dir_Begin ==
    /\ dpc = "ready"
    /\ files > 0
    /\ counters' = ResetCounters(counters)
    /\ results' = NewResults
    /\ idx' = 1
    /\ dpc' = "loop"
    /\ UNCHANGED <<files, modified, report_calls, log, memVars>>
    /\ UNCHANGED <<sendVars, extractVars, fileVars, fixVars>>

(* A file skipped or failed before the lookup of its cached analysis: only  *)
(* failed_files changes                                                     *)
Dir_FileFails ==
    /\ dpc = "loop"
    /\ idx <= files
    /\ \E why \in FileFailures : log' = Append(log, "failed")
    /\ counters' = Failed(counters)
    /\ idx' = idx + 1
    /\ UNCHANGED <<dpc, files, results, modified, report_calls, memVars>>
    /\ UNCHANGED <<sendVars, extractVars, fileVars, fixVars>>

(* The stat outcomes of a directory run: the time of the cached analyses,   *)
(* a later time, a stat that raises                                         *)
DirStats == Stats \ {Stat(1)}

(* _analyze_file raises: the file was looked up and is_file_modified was    *)
(* asked, the passes made so far were made, nothing is stored, and the      *)
(* except clause of the loop counts the file as failed.                     *)
Dir_AnalysisRaises ==
    /\ dpc = "loop"
    /\ idx <= files
    /\ \E st \in DirStats, n \in RaisePoints(idx) :
          LET existing_analysis == GetFileAnalysis(file_analyses, idx)
              file_modified == IsFileModified(st, existing_analysis)
          IN  /\ ~(existing_analysis # NoValue /\ ~file_modified)
              /\ modified' = [stat |-> st, existing |-> existing_analysis,
                              answer |-> file_modified]
              /\ calls' = calls \o CallsBeforeRaise(idx, n)
    /\ log' = Append(log, "failed")
    /\ counters' = Failed(counters)
    /\ idx' = idx + 1
    /\ UNCHANGED <<dpc, files, results, report_calls, file_analyses, analyses, clock>>
    /\ UNCHANGED <<sendVars, extractVars, fileVars, fixVars>>

Dir_Reuse ==
    /\ dpc = "loop"
    /\ idx <= files
    /\ \E st \in DirStats :
          LET existing_analysis == GetFileAnalysis(file_analyses, idx)
              file_modified == IsFileModified(st, existing_analysis)
          IN  /\ existing_analysis # NoValue /\ ~file_modified
              /\ modified' = [stat |-> st, existing |-> existing_analysis,
                              answer |-> file_modified]
              /\ log' = Append(log, "existing")
              /\ counters' = [counters EXCEPT
                                !.issue_count = @ + CountIssues(existing_analysis),
                                !.files_analyzed = @ + 1]
              /\ results' = [results EXCEPT
                                !.file_analyses = UpdateFileAnalysis(@, idx, existing_analysis)]
    /\ idx' = idx + 1
    /\ UNCHANGED <<dpc, files, report_calls, memVars>>
    /\ UNCHANGED <<sendVars, extractVars, fileVars, fixVars>>

Dir_Analyze ==
    /\ dpc = "loop"
    /\ idx <= files
    /\ \E st \in DirStats, std \in DirOutcomes :
          LET existing_analysis == GetFileAnalysis(file_analyses, idx)
              file_modified == IsFileModified(st, existing_analysis)
              fa == FileAnalysisOf(idx, st, std)
          IN  /\ ~(existing_analysis # NoValue /\ ~file_modified)
              /\ modified' = [stat |-> st, existing |-> existing_analysis,
                              answer |-> file_modified]
              /\ log' = Append(log, "new")
              /\ file_analyses' = UpdateFileAnalysis(file_analyses, idx, fa)
              /\ calls' = Append(calls \o BackendCalls(idx, fa), Put(idx, fa))
              /\ counters' = [counters EXCEPT
                                !.issue_count = @ + CountIssues(fa),
                                !.files_analyzed = @ + 1]
              /\ results' = [results EXCEPT
                                !.file_analyses = UpdateFileAnalysis(@, idx, fa)]
    /\ idx' = idx + 1
    /\ UNCHANGED <<dpc, files, report_calls, analyses, clock>>
    /\ UNCHANGED <<sendVars, extractVars, fileVars, fixVars>>

(* What _save_store does at the end of store_analysis: it writes the file, *)
(* or json.dump or open raises inside its try and is printed, or mkdir     *)
(* raises before the try and the exception reaches analyze_directory.      *)
SaveOutcomes == {"saved", "dump raises", "mkdir raises"}

ReturnedOnlyIfSaved(final, save) ==
    IF save = "saved" THEN final ELSE [error |-> "Error storing analysis: boom"]

(* try: self.analysis_store.store_analysis(...) except Exception: print;   *)
(* return results                                                           *)
ReturnedAfterStore(final, save) == final

FinalResultsUncounted(res, c, up) == ProjectReports(res, c.files_analyzed, up)

(* The results dictionary once the loop is over: the counts, the three     *)
(* project reports, failed_files                                            *)
FinalResults(res, c, up) ==
    LET counted == [res EXCEPT !.files_analyzed = c.files_analyzed,
                               !.total_issues = c.issue_count]
    IN  ProjectReports(counted, c.files_analyzed, up) @@ [failed_files |-> c.failed_files]

Dir_Finish ==
    /\ dpc = "loop"
    /\ idx > files
    /\ \E up \in ReportOutcomes, save \in SaveOutcomes :
          LET final == FinalResults(results, counters, up)
          IN  /\ results' = ReturnedAfterStore(final, save)
              /\ analyses' = StoreAnalysis(analyses, ProjectName, final, TRUE, clock)
              /\ calls' = Append(calls, Write(ProjectName, clock, TRUE) @@ [save |-> save])
              /\ report_calls' = ReportCalls(counters.files_analyzed, up)
    /\ clock' = clock + 1
    /\ dpc' = "done"
    /\ UNCHANGED <<files, idx, counters, modified, log, file_analyses>>
    /\ UNCHANGED <<sendVars, extractVars, fileVars, fixVars>>

(* A cache left by an earlier run: each path is absent or holds an analysis *)
(* made when the file's modification time was 2                             *)
CachedAnalyses(p) == {FileAnalysisOf(p, Stat(2), o) : o \in DirOutcomes}

InitDir ==
    /\ dpc = "ready"
    /\ files \in 0..MaxFiles
    /\ idx = 0
    /\ counters \in {NoCounts, LeftCounts}
    /\ results = NoValue
    /\ modified = NoValue
    /\ report_calls = 0
    /\ log = <<>>
    /\ \E S \in SUBSET (1..files) :
          \E f \in [S -> UNION {CachedAnalyses(p) : p \in S}] :
              /\ \A p \in S : f[p] \in CachedAnalyses(p)
              /\ file_analyses = f
    /\ analyses = <<>>
    /\ clock = 1
    /\ calls = <<>>
    /\ IdleFix /\ IdleSend /\ IdleExtract /\ IdleFile

NextDir ==
    \/ Dir_ScanFails
    \/ Dir_NoFiles
    \/ Dir_Begin
    \/ Dir_FileFails
    \/ Dir_AnalysisRaises
    \/ Dir_Reuse
    \/ Dir_Analyze
    \/ Dir_Finish

SpecDir == InitDir /\ [][NextDir]_vars

(* The loop of analyze_directory is a for loop over a list and every call   *)
(* it makes returns or raises: a run that can take a step takes one.        *)
SpecDirLive == SpecDir /\ WF_vars(NextDir)

(* The two stores on their own: any sequence of store_analysis calls on the *)
(* AnalysisStore, any sequence of update_file_analysis and                  *)
(* get_file_analysis calls on the ProjectContext.                           *)
Projects == {ProjectName, "other"}
SampleResults == {[NewResults EXCEPT !.files_analyzed = 1, !.total_issues = k] : k \in {0, 1}}
SamplePaths == {1, 2}
SampleAnalyses(p) ==
    {FileAnalysisOf(p, Stat(2), o) :
        o \in {q \in PassOutcomes : q.kind = "raise" \/
                    (Len(q.text) = 1 /\ q.tokens = SampleTokens)}}

Store_Analysis ==
    /\ Len(calls) < MaxWrites
    /\ \E project \in Projects, res \in SampleResults, overwrite \in BOOLEAN :
          /\ analyses' = StoreAnalysis(analyses, project, res, overwrite, clock)
          /\ calls' = Append(calls, Write(project, clock, overwrite) @@ [save |-> "saved"])
    /\ clock' \in {clock, clock + 1}
    /\ UNCHANGED file_analyses
    /\ UNCHANGED <<sendVars, extractVars, fileVars, dirVars, fixVars>>

Context_Update ==
    /\ Len(calls) < MaxWrites
    /\ \E p \in SamplePaths :
          \E a \in SampleAnalyses(p) :
              /\ file_analyses' = UpdateFileAnalysis(file_analyses, p, a)
              /\ calls' = Append(calls, Put(p, a))
    /\ UNCHANGED <<analyses, clock>>
    /\ UNCHANGED <<sendVars, extractVars, fileVars, dirVars, fixVars>>

Context_Get ==
    /\ Len(calls) < MaxWrites
    /\ \E p \in SamplePaths :
          calls' = Append(calls, Get(p, GetFileAnalysis(file_analyses, p)))
    /\ UNCHANGED <<file_analyses, analyses, clock>>
    /\ UNCHANGED <<sendVars, extractVars, fileVars, dirVars, fixVars>>

InitMemory ==
    /\ file_analyses = <<>> /\ analyses = <<>> /\ clock = 1 /\ calls = <<>>
    /\ IdleDir /\ IdleFix /\ IdleSend /\ IdleExtract /\ IdleFile

NextHistory ==
    \/ Store_Analysis

SpecHistory == InitMemory /\ [][NextHistory]_vars

(* The history store under all three of its calls.  get_analysis answers   *)
(* with the results of the first entry whose id matches, None when there is *)
(* none; delete_analysis drops every entry whose id matches and answers     *)
(* whether the list became shorter.                                         *)
WithId(list, analysis_id) == SelectSeq(list, LAMBDA a : a.id = analysis_id)
WithoutId(list, analysis_id) == SelectSeq(list, LAMBDA a : a.id # analysis_id)
GetAnalysis(list, analysis_id) ==
    IF WithId(list, analysis_id) = <<>> THEN NoValue
    ELSE WithId(list, analysis_id)[1].results
DeleteAnalysis(list, analysis_id) ==
    [analyses |-> WithoutId(list, analysis_id),
     returned |-> Len(WithoutId(list, analysis_id)) < Len(list)]
GetId(analysis_id, res, held) ==
    [op |-> "get_analysis", id |-> analysis_id, results |-> res, held |-> held]
Delete(analysis_id, returned, removed) ==
    [op |-> "delete_analysis", id |-> analysis_id, returned |-> returned, removed |-> removed]
MissingId == <<"other", 0>>
KnownIds == {analyses[i].id : i \in DOMAIN analyses} \cup {MissingId}

Store_Get ==
    /\ Len(calls) < MaxWrites
    /\ \E analysis_id \in KnownIds :
          calls' = Append(calls, GetId(analysis_id, GetAnalysis(analyses, analysis_id),
                                       Len(WithId(analyses, analysis_id))))
    /\ UNCHANGED <<file_analyses, analyses, clock>>
    /\ UNCHANGED <<sendVars, extractVars, fileVars, dirVars, fixVars>>

Store_Delete ==
    /\ Len(calls) < MaxWrites
    /\ \E analysis_id \in KnownIds :
          LET d == DeleteAnalysis(analyses, analysis_id)
          IN  /\ analyses' = d.analyses
              /\ calls' = Append(calls, Delete(analysis_id, d.returned,
                                               Len(analyses) - Len(d.analyses)))
    /\ UNCHANGED <<file_analyses, clock>>
    /\ UNCHANGED <<sendVars, extractVars, fileVars, dirVars, fixVars>>

NextStore ==
    \/ Store_Analysis
    \/ Store_Get
    \/ Store_Delete

SpecStore == InitMemory /\ [][NextStore]_vars

NextContext ==
    \/ Context_Update
    \/ Context_Get

SpecContext == InitMemory /\ [][NextContext]_vars

(* Every stat outcome against no entry and against every analysis           *)
(* _analyze_file can have left for a path                                   *)
InitModified ==
    /\ dpc = "check"
    /\ \E st \in Stats :
          \E e \in {NoValue} \cup {FileAnalysisOf(p, s, o) :
                                      p \in 1..MaxFiles, s \in Stats, o \in DirOutcomes} :
              modified = [stat |-> st, existing |-> e]
    /\ files = 0 /\ idx = 0 /\ counters = NoValue /\ results = NoValue
    /\ report_calls = 0 /\ log = <<>>
    /\ IdleMem /\ IdleFix /\ IdleSend /\ IdleExtract /\ IdleFile

NextModified ==
    \/ Modified_Check

SpecModified == InitModified /\ [][NextModified]_vars

----------------------------------------------------------------------------
(* CodeFixer: the fix of one file, with LLMService.generate_fixes and       *)
(* FileService.validate_code.  A response of the backend is a text of up to *)
(* MaxResponseLines lines; a fence line is the three backquotes alone or    *)
(* followed by the name of the file's language.                             *)

MaxResponseLines == 3

PlainFence == TLine(Fence, <<>>)
TaggedFence == TLine(Fence, <<"language">>)
CodeLine == TLine("", <<"x", "=", "(", "1", ")">>)
OpenLine == TLine("", <<"x", "=", "(", "1">>)
MismatchLine == TLine("", <<"x", "=", "(", "1", "]">>)
ResponseLines ==
    {PlainFence, TaggedFence, CodeLine, OpenLine, MismatchLine, TimeoutLine, TLine("", <<>>)}
Responses == SeqsUpTo(ResponseLines, MaxResponseLines)
Languages == {"python", "javascript", "typescript", "java"}
FixIssues ==
    {<<>>, <<Issue("None", JoinWords(Neutral))>>,
     <<Issue("None", JoinWords(Neutral)), Issue("None", JoinWords(PraiseBut))>>}
OriginalContent == <<CodeLine>>

(* _extract_code_block: the first match of the fence pattern, which opens   *)
(* at the first fence of the text (its language tag consumed) and closes at *)
(* the next one; the group is stripped of the whitespace around it.         *)
ExtractCodeBlock(text) ==
    LET fences == {i \in DOMAIN text : text[i].mark = Fence}
    IN  IF Cardinality(fences) < 2 THEN NoValue
        ELSE LET open == CHOOSE i \in fences : \A j \in fences : i <= j
                 close == CHOOSE i \in fences \ {open} : \A j \in fences \ {open} : i <= j
             IN  [block |-> DropTrailingWhitespace(
                               DropLeadingWhitespace(SubSeq(text, open + 1, close - 1)))]

GenerateFixes(response) ==
    LET fixed_code == ExtractCodeBlock(response)
    IN  IF fixed_code = NoValue \/ TextLen(fixed_code.block) = 0 THEN response
        ELSE fixed_code.block

(* The words of a text in reading order; a delimiter is a word of its own.  *)
RECURSIVE TextWords(_)
TextWords(t) ==
    IF t = <<>> THEN <<>> ELSE t[1].words \o TextWords(Tail(t))

Opening(w) ==
    CASE w = ")" -> "(" [] w = "]" -> "[" [] w = "}" -> "{" [] OTHER -> ""

RECURSIVE CheckBalancedDelimiters(_, _)
CheckBalancedDelimiters(ws, stack) ==
    IF ws = <<>> THEN stack = <<>>
    ELSE IF ws[1] \in {"(", "[", "{"}
         THEN CheckBalancedDelimiters(Tail(ws), Append(stack, ws[1]))
    ELSE IF ws[1] \in {")", "]", "}"}
         THEN /\ stack # <<>>
              /\ stack[Len(stack)] = Opening(ws[1])
              /\ CheckBalancedDelimiters(Tail(ws), SubSeq(stack, 1, Len(stack) - 1))
    ELSE CheckBalancedDelimiters(Tail(ws), stack)

(* ast.parse on the texts of the vocabulary: a text parses exactly if each  *)
(* of its lines is the complete assignment or blank.                        *)
PythonParses(t) ==
    \A i \in DOMAIN t : t[i] = CodeLine \/ IsWhitespaceLine(t[i])

ValidateCode(code, language) ==
    CASE language = "python" -> PythonParses(code)
      [] language \in {"javascript", "typescript"} ->
            CheckBalancedDelimiters(TextWords(code), <<>>)
      [] OTHER -> TRUE

(* _fix_file: the content it returns and what it adds to fixes_applied.     *)
FixFile(content, language, fissues, response) ==
    IF fissues = <<>> THEN [fixed_content |-> content, applied |-> 0]
    ELSE LET fixed_content == GenerateFixes(response)
         IN  IF StrippedTextLen(fixed_content) = 0
             THEN [fixed_content |-> content, applied |-> 0]
             ELSE IF ~ValidateCode(fixed_content, language)
             THEN [fixed_content |-> content, applied |-> 0]
             ELSE [fixed_content |-> fixed_content, applied |-> Len(fissues)]

(* One turn of the loop of fix_from_analysis, from the reset counters.      *)
Fix_File ==
    /\ fixpc = "called"
    /\ LET r == FixFile(fix_call.content, fix_call.language, fix_call.issues,
                        fix_call.response)
           changed == r.fixed_content # fix_call.content
       IN  fix_ret' = [fixed_content |-> r.fixed_content,
                       fixes_applied |-> r.applied,
                       files_fixed |-> IF changed THEN 1 ELSE 0,
                       fixed_files |-> IF changed THEN <<r.fixed_content>> ELSE <<>>]
    /\ fixpc' = "returned"
    /\ UNCHANGED <<fix_call, sendVars, extractVars, fileVars, dirVars, memVars>>

InitFix ==
    /\ fixpc = "called"
    /\ \E l \in Languages, i \in FixIssues, r \in Responses :
          fix_call = [content |-> OriginalContent, language |-> l, issues |-> i,
                      response |-> r]
    /\ fix_ret = NoValue
    /\ IdleDir /\ IdleMem /\ IdleSend /\ IdleExtract /\ IdleFile

NextFix ==
    \/ Fix_File

SpecFix == InitFix /\ [][NextFix]_vars

(* CodeFixer._update_project_context on the dictionary of the context: the *)
(* cached issues whose description is one of the fixed issues' are marked.  *)
MarkFixed(cached, fissues) ==
    IF "issues" \in DOMAIN cached
    THEN [cached EXCEPT
            !.issues = [i \in DOMAIN @ |->
                          IF \E k \in DOMAIN fissues : fissues[k].description = @[i].description
                          THEN [@[i] EXCEPT !.fixed = TRUE]
                          ELSE @[i]]]
    ELSE cached

UpdateProjectContext(fa, p, fissues) ==
    LET cached == GetFileAnalysis(fa, p)
    IN  IF cached = NoValue THEN fa
        ELSE UpdateFileAnalysis(fa, p, MarkFixed(cached, fissues))

UpdateAlways(changed) == TRUE

(* if fixed_content != content *)
UpdatesContext(changed) == changed

(* CodeFixer on a project whose context holds analyses.  fix_from_analysis  *)
(* resets the two counters, takes the files of the report one by one        *)
(* (_fix_file, then _update_project_context and the two additions if the    *)
(* content was modified) and returns the dictionary of fixed files.  The    *)
(* public fix_file does one file outside such a call: it neither resets     *)
(* nor counts the file, and returns the fixed content or None.              *)
(* fix_call holds the files the running call has left and the inputs of the *)
(* latest _fix_file (its path, content and language); fix_ret holds the fixer's counters, the dictionary     *)
(* built so far and what the latest call returned.                          *)
FixResponses == {<<>>, <<CodeLine>>, <<CodeLine, CodeLine>>, <<OpenLine>>, <<TimeoutLine>>}
FileLanguage(p) == IF p = 1 THEN "python" ELSE "javascript"
MaxFixesApplied == 2

NewFixer ==
    [fixes_applied |-> 0, files_fixed |-> 0, fixed_files |-> <<>>,
     fixed_content |-> NoValue, file_context |-> FALSE,
     returned |-> NoValue]
NoFixCall == [pending |-> {}, path |-> 0, content |-> <<>>, language |-> "none"]

(* What _fix_file and the code after it do for file p; counted tells        *)
(* whether the caller is the loop of fix_from_analysis                      *)
FixOne(p, i, resp, pending, counted) ==
    LET r == FixFile(OriginalContent, FileLanguage(p), i, resp)
        changed == r.fixed_content # OriginalContent
    IN  /\ fix_call' = [pending |-> pending, path |-> p, content |-> OriginalContent,
                        language |-> FileLanguage(p)]
        /\ fix_ret' = [fixed_content |-> r.fixed_content,
                       fixes_applied |-> fix_ret.fixes_applied + r.applied,
                       files_fixed |-> IF counted /\ changed THEN fix_ret.files_fixed + 1
                                       ELSE fix_ret.files_fixed,
                       fixed_files |-> IF counted /\ changed
                                       THEN (p :> r.fixed_content) @@ fix_ret.fixed_files
                                       ELSE fix_ret.fixed_files,
                       file_context |-> UpdatesContext(changed),
                       returned |-> IF counted THEN NoValue
                                    ELSE IF changed THEN r.fixed_content ELSE NoValue]
        /\ file_analyses' = IF UpdatesContext(changed)
                            THEN UpdateProjectContext(file_analyses, p, i)
                            ELSE file_analyses

Fix_Begin ==
    /\ fixpc = "ready"
    /\ \E report \in SUBSET SamplePaths :
          fix_call' = [NoFixCall EXCEPT !.pending = report]
    /\ fix_ret' = NewFixer
    /\ fixpc' = "loop"
    /\ UNCHANGED <<file_analyses, analyses, clock, calls>>
    /\ UNCHANGED <<sendVars, extractVars, fileVars, dirVars>>

Fix_Turn ==
    /\ fixpc = "loop"
    /\ \E p \in fix_call.pending, i \in FixIssues, resp \in FixResponses :
          FixOne(p, i, resp, fix_call.pending \ {p}, TRUE)
    /\ fixpc' = "loop"
    /\ UNCHANGED <<analyses, clock, calls>>
    /\ UNCHANGED <<sendVars, extractVars, fileVars, dirVars>>

Fix_End ==
    /\ fixpc = "loop"
    /\ fix_call.pending = {}
    /\ fix_ret' = [fix_ret EXCEPT !.returned = fix_ret.fixed_files]
    /\ fixpc' = "ready"
    /\ UNCHANGED <<fix_call, file_analyses, analyses, clock, calls>>
    /\ UNCHANGED <<sendVars, extractVars, fileVars, dirVars>>

Fix_Single ==
    /\ fixpc = "ready"
    /\ fix_ret.fixes_applied < MaxFixesApplied
    /\ \E p \in SamplePaths, i \in FixIssues, resp \in FixResponses :
          FixOne(p, i, resp, {}, FALSE)
    /\ fixpc' = "ready"
    /\ UNCHANGED <<analyses, clock, calls>>
    /\ UNCHANGED <<sendVars, extractVars, fileVars, dirVars>>

(* The fixer works on the context an earlier run left, as in InitDir; once  *)
(* it is idle analyze_directory runs over the two files and analyses again  *)
(* those that are new or modified.  The program is single-threaded: the     *)
(* run starts between two calls of the fixer, and the fixer is not called   *)
(* while the run is going.                                                  *)
FixedFiles == Cardinality(SamplePaths)

InitFixed ==
    /\ fixpc = "ready" /\ fix_call = NoFixCall /\ fix_ret = NewFixer
    /\ dpc = "ready" /\ files = FixedFiles /\ idx = 0 /\ counters = NoCounts
    /\ results = NoValue /\ modified = NoValue /\ report_calls = 0 /\ log = <<>>
    /\ \E S \in SUBSET SamplePaths :
          \E f \in [S -> UNION {CachedAnalyses(p) : p \in S}] :
              /\ \A p \in S : f[p] \in CachedAnalyses(p)
              /\ file_analyses = f
    /\ analyses = <<>> /\ clock = 1 /\ calls = <<>>
    /\ IdleSend /\ IdleExtract /\ IdleFile

FixerIdle == fixpc = "ready"
RunNotStarted == dpc = "ready"

NextFixed ==
    \/ RunNotStarted /\ Fix_Begin
    \/ RunNotStarted /\ Fix_Turn
    \/ RunNotStarted /\ Fix_End
    \/ RunNotStarted /\ Fix_Single
    \/ FixerIdle /\ Dir_ScanFails
    \/ FixerIdle /\ Dir_Begin
    \/ FixerIdle /\ Dir_FileFails
    \/ FixerIdle /\ Dir_AnalysisRaises
    \/ FixerIdle /\ Dir_Reuse
    \/ FixerIdle /\ Dir_Analyze
    \/ FixerIdle /\ Dir_Finish

SpecFixed == InitFixed /\ [][NextFixed]_vars

------------------------------
(* Claims about the transport clients *)

AllFailed == reqs.n > 0 /\ reqs.seen \subseteq TransportFailures

SentinelTexts ==
    {TimeoutSentinel(max_retries)}
    \cup {RequestSentinel(max_retries, k) : k \in {"connection", "http"}}
    \cup {UnexpectedSentinel(max_retries, k) : k \in {"attr", "type", "both"}}
    \cup {EnhancedSentinel(ErrText(k)) : k \in TransportFailures}
    \cup {EnhancedSentinel(JsonErrText(body)) : body \in Bodies}

IsSentinel == ret.kind = "value" /\ ret.text \in SentinelTexts

(* C1 as claimed: with max_retries = 3 and a transport that fails on every *)
(* attempt, a send call makes exactly 4 requests before it returns the     *)
(* degraded error sentinel.                                                *)
C1_FourAttempts ==
    (pc = "returned" /\ max_retries = 3 /\ AllFailed)
        => (reqs.n = 4 /\ IsSentinel)

(* C1 amended: with max_retries = 3 and a transport that fails on every    *)
(* attempt, whatever the failure kinds, LLMService._call_ollama makes      *)
(* exactly 3 requests and EnhancedLLMService._call_llm exactly 4, and only *)
(* then returns the error sentinel with 0 tokens.                          *)
C1_AttemptBound ==
    (pc = "returned" /\ max_retries = 3 /\ AllFailed)
        => /\ IsSentinel
           /\ ret.tokens = 0
           /\ reqs.n = IF svc = LLM THEN 3 ELSE 4

C1_Witness ==
    /\ pc = "returned" /\ svc = LLM /\ max_retries = 3
    /\ reqs.seen = TransportFailures /\ reqs.n = 3
    /\ IsSentinel

(* C2 as claimed: with a retry budget of at least one attempt, a send call *)
(* never raises to its caller; it returns a text with a token count, and   *)
(* an error sentinel comes with exactly 0 tokens.                          *)
C2_NeverRaises ==
    max_retries >= 1 =>
        /\ pc # "raised"
        /\ pc = "returned" => (ret.kind = "value" /\ (IsSentinel => ret.tokens = 0))

(* C3 as claimed: the k-th wait of a send call equals                      *)
(* initial_delay * backoff_factor^(k-1) with the configured backoff        *)
(* factor, and no wait follows the last permitted attempt.                 *)
C3_ConfiguredBackoff ==
    /\ \A k \in 1..Len(sleeps) : sleeps[k] = initial_delay * Pow(backoff_factor, k - 1)
    /\ (pc = "returned" /\ IsSentinel) =>
           Len(sleeps) = IF svc = LLM THEN max_retries - 1 ELSE max_retries

(* C3 amended: the k-th wait equals initial_delay * f^(k-1), where f is    *)
(* the configured backoff factor in LLMService._call_ollama and the fixed  *)
(* factor 2 in EnhancedLLMService._call_llm; no wait follows the last      *)
(* permitted attempt.                                                      *)
C3_Backoff ==
    /\ \A k \in 1..Len(sleeps) :
          sleeps[k] = initial_delay * Pow(IF svc = LLM THEN backoff_factor ELSE 2, k - 1)
    /\ (pc = "returned" /\ IsSentinel) =>
           Len(sleeps) = IF svc = LLM THEN max_retries - 1 ELSE max_retries

C3_Witness ==
    /\ pc = "returned" /\ IsSentinel /\ svc = LLM
    /\ backoff_factor = 3 /\ initial_delay = 2
    /\ sleeps = <<2, 6>>

(* A streaming body: two or more lines, each a JSON object *)
IsStreaming(body) ==
    Len(body) >= 2 /\ \A i \in 1..Len(body) : IsDictLine(body[i])

RECURSIVE ConcatFields(_)
ConcatFields(body) ==
    IF body = <<>> THEN ""
    ELSE (IF Head(body).field \in {"response", "text"} THEN Head(body).val ELSE "")
         \o ConcatFields(Tail(body))

FromGenerate == reqs.latest = "ok" /\ last # NoValue /\ last.ep = "generate"

(* C4 as claimed: a successful body of two or more JSON fragments is       *)
(* returned as the concatenation of the response/text fields of all        *)
(* fragments, and a body that is one JSON object is returned by the        *)
(* single-JSON path (its response field and its token counts).             *)
C4_StreamingConcatenated ==
    (pc = "returned" /\ FromGenerate) =>
        /\ IsStreaming(last.body) => ret.text = ConcatFields(last.body)
        /\ (JsonLoadsOk(last.body) /\ IsDictLine(NonBlank(last.body)[1])) =>
              ret.text = DictGet(NonBlank(last.body)[1], "response")

(* A body no line of which is JSON *)
NoJson(body) == \A i \in 1..Len(body) : body[i].kind \in {"plain", "blank"}

RECURSIVE WordTotal(_)
WordTotal(body) ==
    IF body = <<>> THEN 0 ELSE Len(Head(body).words) + WordTotal(Tail(body))

RECURSIVE SpacedLines(_)
SpacedLines(lines) ==
    IF lines = <<>> THEN ""
    ELSE JoinWords(Head(lines).words) \o " " \o SpacedLines(Tail(lines))

(* C5 as claimed: a successful body from which no JSON can be parsed is    *)
(* returned as it is, with 2 tokens per word, on the same attempt: once    *)
(* such a body is the latest response the call has returned.               *)
C5_RawTextSameAttempt ==
    (FromGenerate /\ NoJson(last.body)) =>
        /\ pc = "returned"
        /\ ret = Value(JoinLines(last.body).s, 2 * WordTotal(last.body))

(* C5 amended: in LLMService._call_ollama a successful body with no JSON   *)
(* line and at least one non-blank line is returned on the same attempt    *)
(* with 2 tokens per word: a single non-blank line as it is, several lines *)
(* each followed by one blank; a body with no non-blank line leads to one  *)
(* further request, to /api/v1/completions.  In                            *)
(* EnhancedLLMService._call_llm such a body counts as a failed attempt.    *)
C5_PlainTextFallback ==
    (FromGenerate /\ NoJson(last.body)) =>
        LET lines == NonBlank(last.body)
        IN  /\ (svc = LLM /\ lines # <<>>) =>
                  /\ pc = "returned"
                  /\ ret.tokens = 2 * WordTotal(last.body)
                  /\ ret.text = IF Len(lines) = 1 THEN JoinWords(lines[1].words)
                                ELSE SpacedLines(lines)
            /\ (svc = LLM /\ lines = <<>>) => pc = "fallback"
            /\ svc = ENH => (pc = "loop" \/ (pc = "returned" /\ IsSentinel))

C5_Witness ==
    /\ svc = LLM /\ pc = "returned" /\ FromGenerate
    /\ Len(last.body) = 1 /\ last.body[1].kind = "plain"
    /\ ret = Value("not json at all but useful", 12)
    /\ reqs.n = 1

----------------------------------------------------------------------------
(* Claims about the issue extractors, checked under SpecExtract *)

Extracted(who) == xpc = "done" /\ extractor = who

NoDuplicateDescriptions(s) ==
    \A i, j \in DOMAIN s : i # j => s[i].description # s[j].description

(* What the patterns capture from a line, and the stripped line itself *)
Captured(l) == {PatternMatch(p, l)[1].d : p \in {q \in Patterns : PatternMatch(q, l) # <<>>}}
Candidates(t) ==
    UNION {Captured(t[i]) : i \in DOMAIN t} \cup {StripLine(t[i]) : i \in DOMAIN t}

(* C6: the list one extraction returns, from either the cascade of          *)
(* _extract_issues or the structured-heading stage, never holds two issues  *)
(* with the same description string.  _extract_issues adds a description    *)
(* only "if not already added"; _structure_analysis_result appends one      *)
(* issue per heading without that test.                                     *)
C6_NoDuplicatesAnyStage == xpc = "done" => NoDuplicateDescriptions(issues)

Synthesized(t, i) ==
    /\ i.line_number = "None"
    /\ \/ i.description = GenericIssue
       \/ \E k \in DOMAIN t : i.description = ForcedPrefix \o TLineStr(t[k])

(* C8 as claimed: every non-empty text of more than 50 characters in which   *)
(* the earlier stages find nothing yields exactly one, synthesized, issue.  *)
C8_MinimumFloor ==
    (/\ Extracted("CodeAnalyzer")
     /\ TextLen(atext) > MinForcedTextLen
     /\ PatternAndLooseStages(atext) = <<>>)
    => (Len(issues) = 1 /\ Synthesized(atext, issues[1]))

(* C8 amended: every text that does not start with "Error", is longer than   *)
(* 50 characters once stripped of outer whitespace and in which the earlier *)
(* stages find nothing yields exactly one, synthesized, issue.              *)
C8_ForcedMinimum ==
    (/\ Extracted("CodeAnalyzer")
     /\ ~StartsWithError(atext)
     /\ StrippedTextLen(atext) > MinForcedTextLen
     /\ PatternAndLooseStages(atext) = <<>>)
    => (Len(issues) = 1 /\ Synthesized(atext, issues[1]))

(* A text with two long lines, neither matched by an earlier stage *)
C8_Witness ==
    /\ Extracted("CodeAnalyzer")
    /\ ~StartsWithError(atext)
    /\ Len(SelectSeq(StrippedLines(atext), IsLongLine)) >= 2
    /\ PatternAndLooseStages(atext) = <<>>
    /\ Len(issues) = 1

HasContrast(c) ==
    /\ LineKeywords(c) \cap positive_indicators # {}
    /\ LineKeywords(c) \cap negative_indicators # {}

ListItems(t) == UNION {Captured(t[i]) : i \in DOMAIN t}

ContrastEmitted ==
    \A c \in ListItems(atext) :
        (HasContrast(c) /\ Len(TLineStr(c)) >= MinDescriptionLen) => Described(issues, TLineStr(c))

(* C9: at every stage, the forced-minimum stage included, praise without a  *)
(* contrast keyword is never emitted as an issue, and praise with a         *)
(* contrast clause is.  The pattern and loose-line stages test the          *)
(* keywords; the forced-minimum stage emits its line untested.              *)
C9_PositiveFilterEveryStage ==
    Extracted("CodeAnalyzer") =>
        /\ \A c \in Candidates(atext) :
              PositiveOnly(c) =>
                  /\ ~Described(issues, TLineStr(c))
                  /\ ~Described(issues, ForcedPrefix \o TLineStr(c))
        /\ ContrastEmitted

Classified(t, sev, typ) ==
    \A i \in DOMAIN ablocks :
        ablocks[i].title = t => issues[i].severity = sev /\ issues[i].type = typ

SeverityPrecedence(i, t) ==
    /\ i.severity = "critical" <=> SearchWords(CriticalWords, t)
    /\ i.severity = "major" <=> (~SearchWords(CriticalWords, t) /\ SearchWords(MajorWords, t))
    /\ i.severity = "minor" <=> (~SearchWords(CriticalWords, t) /\ ~SearchWords(MajorWords, t))

TypePrecedence(i, t) ==
    LET sec == SearchWords(SecurityWords, t)
        perf == SearchWords(PerformanceWords, t)
        maint == SearchWords(MaintainabilityWords, t)
        bug == SearchWords(BugWords, t)
    IN  /\ i.type = "security" <=> sec
        /\ i.type = "performance" <=> (~sec /\ perf)
        /\ i.type = "maintainability" <=> (~sec /\ ~perf /\ maint)
        /\ i.type = "bug" <=> (~sec /\ ~perf /\ ~maint /\ bug)
        /\ i.type = "general" <=> (~sec /\ ~perf /\ ~maint /\ ~bug)

ClassifiedByPrecedence ==
    /\ Len(issues) = Len(ablocks)
    /\ \A i \in DOMAIN ablocks :
          SeverityPrecedence(issues[i], ablocks[i].title) /\ TypePrecedence(issues[i], ablocks[i].title)

(* C10 as claimed: severity and type follow the keyword precedence, the      *)
(* title "Critical SQL injection vulnerability" is (critical, security) and *)
(* the title "Minor formatting inconsistency" is (minor, maintainability).  *)
C10_ClassifyExamples ==
    Extracted("EnhancedAnalyzer") =>
        /\ ClassifiedByPrecedence
        /\ Classified(CriticalExample, "critical", "security")
        /\ Classified(MinorExample, "minor", "maintainability")

(* C10 amended: severity and type follow the keyword precedence, the title   *)
(* "Critical SQL injection vulnerability" is (critical, security) and the   *)
(* title "Minor formatting inconsistency" is (minor, general).              *)
C10_Classify ==
    Extracted("EnhancedAnalyzer") =>
        /\ ClassifiedByPrecedence
        /\ Classified(CriticalExample, "critical", "security")
        /\ Classified(MinorExample, "minor", "general")

(* The second example has been classified *)
C10_Witness ==
    /\ Extracted("EnhancedAnalyzer")
    /\ Len(ablocks) = 1
    /\ ablocks[1].title = MinorExample
    /\ issues[1].severity = "minor"
    /\ issues[1].type = "general"

----------------------------------------------------------------------------
(* Claims about the analysis of one file, checked under SpecFile *)

Copies(s, d) == Cardinality({i \in DOMAIN s : s[i].description = d})

(* C7 as claimed: no two issues of a FileAnalysis share a description, also  *)
(* when two or three passes ran.                                            *)
C7_NoDuplicatesInFile ==
    fpc = "done" => NoDuplicateDescriptions(file_analysis.issues)

(* C7 amended: the issues extracted from one pass have pairwise different    *)
(* descriptions and the lists of the passes are concatenated as they are,   *)
(* so a description occurs in a FileAnalysis at most once per pass that ran.*)
C7_OncePerPass ==
    fpc = "done" =>
        \A i \in DOMAIN file_analysis.issues :
            Copies(file_analysis.issues, file_analysis.issues[i].description)
                <= Len(file_analysis.passes)

(* Two passes ran and reported the same description *)
C7_Witness ==
    /\ fpc = "done"
    /\ Len(file_analysis.passes) >= 2
    /\ \E i \in DOMAIN file_analysis.issues :
          Copies(file_analysis.issues, file_analysis.issues[i].description) = 2

----------------------------------------------------------------------------
(* Claims about the order of the stages of _extract_issues, checked under   *)
(* SpecExtract                                                              *)

KeywordPatterns == {1, 2}
Kept(d) ==
    Len(TLineStr(d)) >= MinDescriptionLen /\ ~IsNoneText(d) /\ ~PositiveOnly(d)
CapturedBy(ps, t) ==
    {TLineStr(PatternMatch(pi[1], t[pi[2]])[1].d) :
        pi \in {qi \in ps \X DOMAIN t :
                    /\ PatternMatch(qi[1], t[qi[2]]) # <<>>
                    /\ Kept(PatternMatch(qi[1], t[qi[2]])[1].d)}}
Descriptions(s) == {s[i].description : i \in DOMAIN s}

(* C14: a later stage contributes issues only if every earlier stage found  *)
(* nothing: once the keyword-anchored patterns have produced an issue,      *)
(* numbered-list and bullet items of the same text add none.  The loop over *)
(* the patterns tries all five, whatever the earlier ones found.            *)
C14_LaterStagesOnlyAfterNothing ==
    (/\ Extracted("CodeAnalyzer")
     /\ ~StartsWithError(atext)
     /\ CapturedBy(KeywordPatterns, atext) # {})
    => Descriptions(issues) = CapturedBy(KeywordPatterns, atext)

----------------------------------------------------------------------------
(* Claims about the passes of _analyze_file, checked under SpecFile *)

Ran(pass) == \E i \in DOMAIN file_analysis.passes : file_analysis.passes[i] = pass
StandardFailed ==
    \/ file_analysis.standard_analysis = ErrorDuringAnalysis
    \/ IsSentinelText(file_analysis.standard_analysis)
SecurityFailed ==
    \/ file_analysis.security_analysis = NoValue
    \/ IsSentinelText(file_analysis.security_analysis.text)

(* C15: the standard pass is always run, and the security pass is run only  *)
(* if the file has more than 20 lines and the standard pass did not return  *)
(* a transport-error sentinel, whichever sentinel it is.                    *)
C15_SecurityOnlyAfterSuccess ==
    fpc = "done" =>
        /\ file_analysis.passes[1] = "standard"
        /\ Ran("security") => (content_lines > SecurityMinLines /\ ~StandardFailed)

(* C16: the performance pass is run only if the file has more than 50 lines *)
(* and every prior pass of the file succeeded: the standard pass and, when  *)
(* it ran, the security pass.                                               *)
C16_PerformanceOnlyAfterSuccess ==
    (fpc = "done" /\ Ran("performance")) =>
        /\ content_lines > PerformanceMinLines
        /\ ~StandardFailed
        /\ Ran("security") => ~SecurityFailed

----------------------------------------------------------------------------
(* Claims about the staleness check and the directory run *)

Answered == modified # NoValue /\ "answer" \in DOMAIN modified
Cached == modified.existing # NoValue
RecordsTime ==
    /\ "file_info" \in DOMAIN modified.existing
    /\ "last_modified" \in DOMAIN modified.existing.file_info
RecordedTime == modified.existing.file_info.last_modified

(* C11: is_file_modified answers true exactly when there is no cached entry *)
(* or the file's current modification time is strictly greater than the     *)
(* time recorded in the cached entry: against a recorded time T a current   *)
(* time of T + 1 is stale, a current time of T or less is not.  The claim   *)
(* speaks of a file whose modification time can be read and of an entry     *)
(* that records one; when the stat raises the code answers true.            *)
C11_StaleExactly ==
    (Answered /\ modified.stat.ok /\ (Cached => RecordsTime))
        => (modified.answer <=> (~Cached \/ modified.stat.st_mtime > RecordedTime))

(* C11, the boundary: a cached entry recorded at T and a file still at T    *)
(* is answered "not modified"                                               *)
C11_Witness ==
    /\ Answered /\ Cached /\ modified.stat.ok /\ RecordsTime
    /\ modified.stat.st_mtime = RecordedTime
    /\ ~modified.answer

FailedFiles == {i \in 1..Len(log) : log[i] = "failed"}
Running == dpc \in {"loop", "done"} /\ "file_analyses" \in DOMAIN results

(* C12: a failure while processing one file (oversized, binary, read error, *)
(* no content, no language, an exception during its analysis) adds one to   *)
(* failed_files, adds no entry for that file to the result and does not     *)
(* keep any later file from being processed: the run reaches its end with   *)
(* every file either failed or analysed, and the result holds exactly the   *)
(* files that did not fail.                                                 *)
C12_FailureIsolated ==
    Running =>
        /\ Len(log) = idx - 1
        /\ counters.failed_files = Cardinality(FailedFiles)
        /\ counters.files_analyzed = Len(log) - Cardinality(FailedFiles)
        /\ DOMAIN results.file_analyses = (1..Len(log)) \ FailedFiles
        /\ dpc = "done" =>
              /\ Len(log) = files
              /\ results.files_analyzed = files - Cardinality(FailedFiles)
              /\ results.failed_files = Cardinality(FailedFiles)

(* C12, the scenario: of three files only the second fails; the result has  *)
(* files_analyzed = 2, failed_files = 1 and the issues of files 1 and 3.    *)
C12_Witness ==
    /\ dpc = "done" /\ files = 3 /\ log = <<"new", "failed", "new">>
    /\ results.files_analyzed = 2 /\ results.failed_files = 1
    /\ DOMAIN results.file_analyses = {1, 3}
    /\ Len(results.file_analyses[1].issues) > 0
    /\ Len(results.file_analyses[3].issues) > 0

Placeholders ==
    /\ results.project_level_analysis = Some(NoFilesAnalyzed)
    /\ results.growth_recommendations = <<>>
    /\ results.security_overview = Some(NoFilesAnalyzed)

(* C13: when a run over a non-empty file set ends with no file analysed,    *)
(* the project-level analysis, the growth recommendations and the security  *)
(* overview of the result are the fixed placeholders and no backend call    *)
(* was made for any of the three reports.                                   *)
C13_NoReportsWithoutFiles ==
    (dpc = "done" /\ Running /\ results.files_analyzed = 0)
        => (Placeholders /\ report_calls = 0)

(* C13: a run of several files, all failed, has ended *)
C13_Witness ==
    /\ dpc = "done" /\ Running /\ files > 1
    /\ results.files_analyzed = 0 /\ results.failed_files = files
    /\ Placeholders /\ report_calls = 0

RECURSIVE IssueListLengths(_)
IssueListLengths(fa) ==
    IF DOMAIN fa = {} THEN 0
    ELSE LET p == CHOOSE q \in DOMAIN fa : TRUE
         IN  Len(fa[p].issues) + IssueListLengths([q \in DOMAIN fa \ {p} |-> fa[q]])

(* C17: in every result a directory run returns, total_issues is the sum of *)
(* the lengths of the issue lists of the entries of file_analyses, for any  *)
(* mix of newly analysed, reused and failed files; the running count agrees *)
(* with the entries added so far at every turn of the loop.                 *)
C17_TotalIsSumOfLists ==
    Running =>
        /\ counters.issue_count = IssueListLengths(results.file_analyses)
        /\ dpc = "done" => results.total_issues = IssueListLengths(results.file_analyses)

(* C17: a finished run of three files, one reused from the cache with an    *)
(* issue, one newly analysed with an issue, one failed                      *)
C17_Witness ==
    /\ dpc = "done" /\ Running /\ files = 3
    /\ \E i, j, k \in 1..3 : log[i] = "existing" /\ log[j] = "new" /\ log[k] = "failed"
    /\ results.total_issues = 2

----------------------------------------------------------------------------
(* Claims about the two stores, checked under SpecHistory and SpecContext *)

Ids(s) == [i \in DOMAIN s |-> s[i].id]
WritesOf(project) == SelectSeq(calls, LAMBDA c : c.op = "write" /\ c.project = project)
Held(project) == Ids(SelectSeq(analyses, LAMBDA a : a.project = project))
LastOf(s, n) == SubSeq(s, Len(s) - n + 1, Len(s))

(* C18: after any sequence of history writes the store holds for each       *)
(* project the most recent min(k, 10) of the k results written for it, in   *)
(* write order; a write drops nothing while fewer than 10 are held.         *)
(* store_analysis has no retention count: an overwriting write, the         *)
(* default, removes every earlier entry of its project.                     *)
C18_LastTenKept ==
    \A project \in Projects :
        LET k == Len(WritesOf(project))
        IN  Held(project) = LastOf(Ids(WritesOf(project)), IF k < 10 THEN k ELSE 10)

PutsBefore(p, n) ==
    SelectSeq(SubSeq(calls, 1, n), LAMBDA c : c.op = "put" /\ c.path = p)
LatestPut(p, n) ==
    IF PutsBefore(p, n) = <<>> THEN NoValue
    ELSE PutsBefore(p, n)[Len(PutsBefore(p, n))].analysis

(* C19: after any sequence of put and get calls on the context store each  *)
(* file path maps to at most one analysis; a get of a path answers with the *)
(* value of the latest put of that path, None before the first; a put       *)
(* replaces the whole entry of its path, issue list included, and leaves    *)
(* the entries of the other paths as they were.                             *)
C19_LatestPutWins ==
    /\ \A p \in SamplePaths : GetFileAnalysis(file_analyses, p) = LatestPut(p, Len(calls))
    /\ DOMAIN file_analyses = {p \in SamplePaths : PutsBefore(p, Len(calls)) # <<>>}
    /\ \A n \in DOMAIN calls :
          calls[n].op = "get" => calls[n].analysis = LatestPut(calls[n].path, n - 1)

(* C19: two puts of one path with different issue lists, then a get that    *)
(* answers with the second list alone                                       *)
C19_Witness ==
    /\ Len(calls) = 3
    /\ calls[1].op = "put" /\ calls[2].op = "put" /\ calls[3].op = "get"
    /\ calls[1].path = calls[2].path /\ calls[3].path = calls[2].path
    /\ calls[1].analysis.issues # <<>> /\ calls[2].analysis.issues # <<>>
    /\ calls[1].analysis.issues # calls[2].analysis.issues
    /\ calls[3].analysis.issues = calls[2].analysis.issues

----------------------------------------------------------------------------
(* Claims about the fix of one file, checked under SpecFix *)

Fixing == fixpc = "returned" /\ fix_call.issues # <<>>
GeneratedFix == GenerateFixes(fix_call.response)
EmptyFix == StrippedTextLen(GeneratedFix) = 0
FailsSanityCheck ==
    \/ fix_call.language = "python" /\ ~PythonParses(GeneratedFix)
    \/ /\ fix_call.language \in {"javascript", "typescript"}
       /\ ~CheckBalancedDelimiters(TextWords(GeneratedFix), <<>>)
NoCodeBlock == ExtractCodeBlock(fix_call.response) = NoValue
Discarded ==
    /\ fix_ret.fixed_content = fix_call.content
    /\ fix_ret.fixes_applied = 0
    /\ fix_ret.files_fixed = 0
    /\ fix_ret.fixed_files = <<>>

(* C20: when the generated fix is empty, or fails the sanity check of the   *)
(* file's language (parse for Python, balanced delimiters for JavaScript    *)
(* and TypeScript), or the response of the backend holds no code block, the *)
(* fixer returns the original content, adds nothing to fixes_applied and    *)
(* does not report the file as fixed.                                       *)
C20_UnusableFixDiscarded ==
    (Fixing /\ (EmptyFix \/ FailsSanityCheck \/ NoCodeBlock)) => Discarded

----------------------------------------------------------------------------
(* Claims about the end of a directory run, checked under SpecDir *)

Returned == dpc = "done" /\ "error" \notin DOMAIN results
LastCall == calls[Len(calls)]
WriteFailed == Returned /\ LastCall.op = "write" /\ LastCall.save # "saved"
ResultsHadItSaved ==
    {FinalResults([NewResults EXCEPT !.file_analyses = results.file_analyses], counters, up) :
        up \in ReportOutcomes}

(* C21: a run whose history-store write failed still returns, and what it  *)
(* returns is a result of the run with a successful write: the counts of   *)
(* the counters, the file analyses gathered by the loop, the three reports *)
(* and failed_files.                                                        *)
C21_WriteFailureKeepsResult ==
    (dpc = "done" /\ calls # <<>> /\ LastCall.op = "write" /\ LastCall.save # "saved") =>
        /\ "error" \notin DOMAIN results
        /\ results \in ResultsHadItSaved
        /\ DOMAIN results.file_analyses = {i \in DOMAIN log : log[i] # "failed"}

C21_Witness == WriteFailed /\ LastCall.save = "mkdir raises" /\ results.files_analyzed > 0

(* The calls made for the file at path p: backend calls and context puts *)
CallsOf(p) == SelectSeq(calls, LAMBDA c : c.op \in {"backend", "put"} /\ c.path = p)
RequiredPasses(p, fa) ==
    {"standard"} \cup
    (IF /\ FileLength(p) > SecurityMinLines
        /\ fa.standard_analysis # <<>>
        /\ fa.standard_analysis # ErrorDuringAnalysis
        /\ ~IsSentinelText(fa.standard_analysis)
     THEN {"security"} ELSE {})
Reused(p) ==
    /\ CallsOf(p) = <<>>
    /\ results.file_analyses[p] = file_analyses[p]
AnalyzedAndStored(p) ==
    LET cs == CallsOf(p)
        fa == results.file_analyses[p]
    IN  /\ cs # <<>>
        /\ cs[Len(cs)] = Put(p, fa)
        /\ file_analyses[p] = fa
        /\ \A i \in 1..(Len(cs) - 1) : cs[i].op = "backend"
        /\ \A pass \in RequiredPasses(p, fa) :
              Cardinality({i \in 1..(Len(cs) - 1) : cs[i] = BackendCall(p, pass)}) = 1
FileByFile ==
    \A i, j \in DOMAIN calls :
        (i < j /\ calls[i].op # "write" /\ calls[j].op # "write") =>
            calls[i].path <= calls[j].path

(* C22: a file with a cached analysis that is not stale is reused: no       *)
(* backend call and no context put is made for it and the run's result      *)
(* holds the cached analysis; any other file that is analysed gets one      *)
(* backend call for each required pass and then one context put of the new  *)
(* analysis, all before the calls of the next file.                         *)
C22_ReuseOrAnalyzeAndStore ==
    (dpc \in {"loop", "done"} /\ log # <<>>) =>
        /\ \A p \in DOMAIN log :
              /\ log[p] = "existing" => Reused(p)
              /\ log[p] = "new" => AnalyzedAndStored(p)
        /\ log[Len(log)] # "failed" =>
              (log[Len(log)] = "existing" <=> (modified.existing # NoValue /\ ~modified.answer))
        /\ FileByFile

C22_Witness ==
    /\ dpc = "done" /\ Len(log) >= 2
    /\ log[1] = "new" /\ Len(CallsOf(1)) = 3 /\ modified.existing # NoValue
    /\ log[2] = "existing"

----------------------------------------------------------------------------
(* Claims about the fixed flag of cached issues, checked under SpecFixed *)

FlagsOf(a) == IF "issues" \in DOMAIN a THEN [i \in DOMAIN a.issues |-> a.issues[i].fixed] ELSE <<>>
Unflagged(a) == \A i \in DOMAIN FlagsOf(a) : ~FlagsOf(a)[i]
SameIssues(a, b) ==
    /\ Len(a.issues) = Len(b.issues)
    /\ \A i \in DOMAIN a.issues :
          /\ a.issues[i].description = b.issues[i].description
          /\ a.issues[i].line_number = b.issues[i].line_number
FlagsOnlyRaised(a, b) == \A i \in DOMAIN a.issues : a.issues[i].fixed => b.issues[i].fixed
FixAppliedTo(p, call, r) ==
    /\ call.path = p
    /\ r.fixed_content # call.content
    /\ ValidateCode(r.fixed_content, call.language)
    /\ r.file_context

AllUnflagged == \A q \in DOMAIN file_analyses : Unflagged(file_analyses[q])
FlagStep ==
    /\ DOMAIN file_analyses \subseteq DOMAIN file_analyses'
    /\ \A p \in DOMAIN file_analyses' :
          \/ /\ Len(calls') > Len(calls)
             /\ calls'[Len(calls')] = Put(p, file_analyses'[p])
             /\ Unflagged(file_analyses'[p])
          \/ /\ p \in DOMAIN file_analyses
             /\ SameIssues(file_analyses[p], file_analyses'[p])
             /\ FlagsOnlyRaised(file_analyses[p], file_analyses'[p])
             /\ FlagsOf(file_analyses'[p]) # FlagsOf(file_analyses[p]) =>
                   /\ fixpc' \in {"loop", "ready"} /\ calls' = calls
                   /\ FixAppliedTo(p, fix_call', fix_ret')

(* C23: the issues of the cached analyses start with fixed = FALSE; a step  *)
(* either replaces the whole dictionary of a file by a new analysis, whose  *)
(* issues are unflagged again, or keeps its issues and never lowers a flag, *)
(* and raises one only in a fix of that file whose fixed content differs    *)
(* from the original and passed validation.                                 *)
C23_FixedFlagMonotone == AllUnflagged /\ [][FlagStep]_vars

(* A fix raised a flag of a cached file; the file was then modified and the *)
(* run replaced its dictionary by a new analysis with unflagged issues      *)
C23_Witness ==
    /\ dpc = "loop" /\ idx > 1 /\ fix_ret.files_fixed >= 1
    /\ modified # NoValue /\ modified.answer
    /\ modified.existing # NoValue /\ ~Unflagged(modified.existing)
    /\ (idx - 1) \in DOMAIN file_analyses
    /\ file_analyses[idx - 1].issues # <<>> /\ Unflagged(file_analyses[idx - 1])

----------------------------------------------------------------------------
(* Claims about the line ranges of structured issues, checked under         *)
(* SpecExtract                                                              *)

Structured == xpc = "done" /\ extractor = "EnhancedAnalyzer"
NoRange(i) == i.line_start = NoLine /\ i.line_end = NoLine
OrderedRange(i) == i.line_start >= 1 /\ i.line_end >= i.line_start

(* C24: every issue of the structured-heading stage has no line range or a  *)
(* range of positive lines with line_end >= line_start, whatever the        *)
(* heading gives, and a heading with a single line has line_end =           *)
(* line_start.                                                              *)
C24_LineRangeOrdered ==
    Structured =>
        \A k \in DOMAIN issues :
            /\ NoRange(issues[k]) \/ OrderedRange(issues[k])
            /\ (ablocks[k].lines.a # NoLine /\ ablocks[k].lines.b = NoLine) =>
                  issues[k].line_end = issues[k].line_start

----------------------------------------------------------------------------
(* Claims about the issue list of one analysed file, checked under SpecFile *)

IssuesOfPass(a) == IF a = NoValue THEN <<>> ELSE ExtractIssues(a.text)
StandardIssues == ExtractIssues(file_analysis.standard_analysis)
SecurityIssues == IssuesOfPass(file_analysis.security_analysis)
PerformanceIssues == IssuesOfPass(file_analysis.performance_analysis)

(* C25: the issue list of an analysed file is the issues extracted from the *)
(* standard text, then those of the security text, then those of the        *)
(* performance text, each extracted on its own; issue_count and the length  *)
(* of the list are the sum of the three counts, a pass that did not run     *)
(* adding nothing; tokens_used is not negative.                             *)
C25_IssuesConcatenated ==
    fpc = "done" =>
        /\ file_analysis.issues = StandardIssues \o SecurityIssues \o PerformanceIssues
        /\ file_analysis.issue_count =
              Len(StandardIssues) + Len(SecurityIssues) + Len(PerformanceIssues)
        /\ Len(file_analysis.issues) = file_analysis.issue_count
        /\ ~Ran("security") => SecurityIssues = <<>>
        /\ ~Ran("performance") => PerformanceIssues = <<>>
        /\ file_analysis.tokens_used >= 0

C25_Witness ==
    /\ fpc = "done" /\ Ran("security") /\ Ran("performance")
    /\ StandardIssues # <<>> /\ SecurityIssues # <<>> /\ PerformanceIssues # <<>>
    /\ SecurityIssues # StandardIssues
    /\ file_analysis.issue_count >= 3

----------------------------------------------------------------------------
(* Claims about the termination of a directory run, checked under           *)
(* SpecDirLive                                                              *)

Carries ==
    /\ dpc = "done"
    /\ {"files_analyzed", "total_issues", "failed_files"} \subseteq DOMAIN results
EndedEarly == dpc = "done" /\ "error" \in DOMAIN results

(* C26: a run over a non-empty list of files whose scan succeeded reaches   *)
(* its end and returns a result carrying files_analyzed, total_issues and   *)
(* failed_files, whatever fails on the way; a run ends with an error result *)
(* only from a failed or empty scan, before any file was processed.         *)
C26_RunReturns ==
    /\ (dpc = "loop") ~> Carries
    /\ [](dpc = "done" => (Carries \/ EndedEarly))
    /\ [](EndedEarly =>
            /\ log = <<>> /\ idx = 0 /\ calls = <<>>
            /\ results.error \in {"Error scanning directory: boom", "No files to analyze"}
            /\ results.error = "No files to analyze" => files = 0)

C26_Witness ==
    /\ Carries /\ files = MaxFiles
    /\ results.failed_files > 0 /\ results.files_analyzed > 0
    /\ LastCall.save # "saved"
    /\ results.growth_recommendations = <<>>

----------------------------------------------------------------------------
(* Claims about the counters of a directory run, checked under SpecDir *)

FailedSoFar == Cardinality({i \in DOMAIN log : log[i] = "failed"})
CountedSoFar == Cardinality({i \in DOMAIN log : log[i] \in {"existing", "new"}})

(* C27: from the first turn of the loop on, whatever the counters held      *)
(* before the run, files_analyzed counts the files reused or analysed so    *)
(* far and failed_files those skipped or failed, each file once; at the end *)
(* of a run that processed its list the two add up to the number of files   *)
(* enumerated, in the counters and in the result.                           *)
C27_EveryFileCountedOnce ==
    /\ dpc = "loop" =>
          /\ Len(log) = idx - 1
          /\ counters.files_analyzed = CountedSoFar
          /\ counters.failed_files = FailedSoFar
          /\ counters.files_analyzed + counters.failed_files = Len(log)
    /\ Carries =>
          /\ Len(log) = files
          /\ results.files_analyzed = CountedSoFar
          /\ results.failed_files = FailedSoFar
          /\ results.files_analyzed + results.failed_files = files
          /\ counters.files_analyzed + counters.failed_files = files

C27_Witness ==
    /\ Carries /\ files = MaxFiles
    /\ \E i, j, k \in DOMAIN log : log[i] = "failed" /\ log[j] = "existing" /\ log[k] = "new"
    /\ results.files_analyzed + results.failed_files = files

----------------------------------------------------------------------------
(* Claims about the return value of a send call, checked under SpecSend *)

Ended == pc \in {"returned", "raised"}

(* C28: whatever max_retries >= 0 is configured and whatever the attempts   *)
(* do, a send call that ends has returned a pair of a text and a token      *)
(* count: it did not leave the retry loop without a value, and it did not   *)
(* raise.                                                                   *)
C28_SendReturnsPair ==
    Ended =>
        /\ pc = "returned"
        /\ ret # NoValue
        /\ ret.kind = "value"
        /\ ret.tokens >= 0

----------------------------------------------------------------------------
(* Claims about the issues extracted from error sentinels, checked under    *)
(* SpecExtract                                                              *)

ExtractedFromSentinel ==
    xpc = "done" /\ extractor = "CodeAnalyzer" /\ IsSentinelText(atext)

(* C29: extract_issues applied to any of the three sentinels a send call    *)
(* returns after its retries (timeout, request error, unexpected error)     *)
(* returns the empty list.                                                  *)
C29_SentinelGivesNoIssue == ExtractedFromSentinel => issues = <<>>

----------------------------------------------------------------------------
(* Claim about the ids of the history store, checked under SpecStore *)

SameId(i, j) == analyses[i].id = analyses[j].id
GetsOne(c) == c.op = "get_analysis" /\ c.results # NoValue => c.held = 1
DeletesOne(c) == c.op = "delete_analysis" /\ c.returned => c.removed = 1

(* C30: after any sequence of store_analysis and delete_analysis calls,     *)
(* with either value of the overwrite flag and two writes for one project   *)
(* within one clock second included, no two entries of the history store    *)
(* share an analysis id; a get_analysis that finds its id finds it in one   *)
(* entry and a delete_analysis that removes anything removes one entry.     *)
C30_IdsUnique ==
    /\ \A i, j \in DOMAIN analyses : SameId(i, j) => i = j
    /\ \A n \in DOMAIN calls : GetsOne(calls[n]) /\ DeletesOne(calls[n])

====
